---- MODULE Spec2Model ----
(***************************************************************************)
(* A model of build_pyoptsparse.py: the installer that decides, for each   *)
(* dependency of pyOptSparse, whether it is already installed, can be      *)
(* installed with conda, or must be built from source.                     *)
(*                                                                         *)
(* The script is one sequential Python process.  Its control state is the  *)
(* call stack `stack` (one frame per active Python function, `at` being    *)
(* the position inside it); every external command is one step whose exit  *)
(* status is chosen by the environment.  `trace` is the history of the     *)
(* external commands and decisions of the run.                             *)
(***************************************************************************)
EXTENDS Integers, Sequences, FiniteSets, TLC

VARIABLES
    env,        \* os.environ: the variables that are set, with their values
    fs,         \* the files and directories below the install prefix
    fs0,        \* history: what was below the prefix when the run started
    args,       \* the command line of the run, as argparse parses it
    opts,       \* the global opts dict
    sys_info,   \* the global sys_info dict
    probe_out,  \* stdout of `conda info --unsafe-channels`, <<"unset">> before
    cwd,        \* the current working directory of the process
    dir_stack,  \* the global dir_stack list of pushd/popd
    stack,      \* the Python call stack
    status,     \* "running", or the way the process ended
    trace       \* history: the external commands and decisions so far

vars == <<env, fs, fs0, args, opts, sys_info, probe_out, cwd, dir_stack, stack, status, trace>>

conf == <<fs0, args, opts, sys_info, probe_out>>     \* what the set-up phase decides
wd   == <<cwd, dir_stack>>                      \* the working directory state

-----------------------------------------------------------------------------
(* Input domains of the model *)

\* pyOptSparse releases the --branch option names, as parsed versions.
Versions == { <<2, 6, 2>>, <<2, 13, 1>>, <<2, 14, 0>> }

LinearSolvers == { "mumps", "hsl", "pardiso" }

\* Outputs of the channel probe, one token per word; "nl" is a line break.
ProbeOutputs ==
    { <<"defaults">>,
      <<"conda", "-", "forge">>,
      <<"conda", "nl", "forge">> }

\* Path of a file or directory below the prefix, as its components.
CoinOr == <<"include", "coin-or">>
Coin   == <<"include", "coin">>

-----------------------------------------------------------------------------
(* The dependency registry *)

build_info ==
    [ metis |-> [ branch |-> "releases/2.0.0", src_lib_glob |-> "libcoinmetis*",
                  include_subdir |-> "metis", include_file |-> "metis.h" ],
      mumps |-> [ branch |-> "releases/3.0.2", src_lib_glob |-> "libcoinmumps*",
                  include_subdir |-> "mumps", include_file |-> "mumps_c_types.h" ],
      ipopt |-> [ branch |-> "releases/3.14.7", src_lib_glob |-> "lib*ipopt*",
                  include_subdir |-> ".", include_file |-> "IpoptConfig.h",
                  include_glob_list |-> << "Ip*.hpp", "Sens*.hpp", "Ip*.h", "Ip*.inc" >> ],
      pyoptsparse |-> [ branch |-> "args.branch" ],
      hsl   |-> [ branch |-> "releases/2.2.1", src_lib_glob |-> "libcoinhsl*",
                  include_subdir |-> "hsl", include_file |-> "CoinHslConfig.h" ],
      paropt |-> [ branch |-> "v2.1.4", src_lib_glob |-> "libparopt*" ] ]

BuildKeys == DOMAIN build_info

\* The dependencies whose registry entry names a marker header.
MarkerKeys == { k \in BuildKeys : "include_file" \in DOMAIN build_info[k] }

\* pathlib's `/`: joining "." leaves the path as it is.
PathJoin(p, name) == IF name = "." THEN p ELSE Append(p, name)

\* The marker header of build_key below the include directory coin_dir.
MarkerPath(coin_dir, build_key) ==
    PathJoin(PathJoin(coin_dir, build_info[build_key].include_subdir),
             build_info[build_key].include_file)

is_dir(p)  == p \in fs.dirs
is_file(p) == p \in fs.files

\* All the proper ancestors of a path, and the path itself.
RECURSIVE Ancestors(_)
Ancestors(p) == IF Len(p) = 0 THEN {} ELSE {p} \cup Ancestors(SubSeq(p, 1, Len(p) - 1))

\* The file system after creating the file p (and the directories above it).
WithFile(f, p) ==
    [ dirs |-> f.dirs \cup (Ancestors(p) \ {p}), files |-> f.files \cup {p} ]

\* Prefix contents the run may start from.
PrefixLayouts ==
    LET empty == [ dirs |-> {}, files |-> {} ]
        all(f, d) == WithFile(WithFile(WithFile(WithFile(f,
                        MarkerPath(d, "metis")), MarkerPath(d, "mumps")),
                        MarkerPath(d, "hsl")), MarkerPath(d, "ipopt"))
    IN  { empty,
          all(empty, CoinOr),
          all(empty, Coin),
          \* include/coin-or is there but the headers are under include/coin
          all([ dirs |-> {<<"include">>, CoinOr}, files |-> {} ], Coin),
          WithFile(empty, MarkerPath(CoinOr, "metis")),
          WithFile(empty, MarkerPath(Coin, "ipopt")) }

-----------------------------------------------------------------------------
(* Globbing *)

\* fnmatch(name, pattern) for the file names and the patterns of the model:
\* the names each glob pattern of build_info matches.
GlobMatches ==
    ("Ip*.hpp" :> { "IpIpoptApplication.hpp" }) @@ ("Sens*.hpp" :> {})
    @@ ("Ip*.h" :> { "IpoptConfig.h" }) @@ ("Ip*.inc" :> {})
    @@ ("libcoinmetis*" :> { "libcoinmetis.so" })
    @@ ("libmetis*" :> { "libmetis.so" })
    @@ ("libcoinmumps*" :> { "libcoinmumps.so" })
    @@ ("libmumps*" :> { "libmumps_common.so" })
    @@ ("lib*ipopt*" :> { "libipopt.so" })
    @@ ("libcoinhsl*" :> { "libcoinhsl.so" })
    @@ ("libparopt*" :> { "libparopt.so" })

fnmatch(name, pattern) == name \in GlobMatches[pattern]

\* Path p lies below directory d.
Under(p, d) == Len(p) > Len(d) /\ SubSeq(p, 1, Len(d)) = d

\* Path(d).glob(pattern): the files directly in d whose name matches.
glob(f, d, pattern) ==
    { p \in f.files : /\ Len(p) = Len(d) + 1
                      /\ Under(p, d)
                      /\ fnmatch(p[Len(p)], pattern) }

-----------------------------------------------------------------------------
(* Pure functions of the script *)

conda_is_active == "CONDA_PREFIX" \in DOMAIN env

\* shutil.which(cmd) is not None: the command is found on the search path.
which(cmd) == cmd \in env["PATH"]

venv_is_active == "VIRTUAL_ENV" \in DOMAIN env

\* Variant: the channel flag is not consulted.
allow_install_with_conda_no_probe ==
    conda_is_active /\ (opts.ignore_conda = FALSE)

\* Variant: conda is never used.
allow_install_with_conda_never == FALSE

allow_install_with_conda ==
    conda_is_active /\ (opts.ignore_conda = FALSE)
        /\ (sys_info.conda_forge_available = TRUE)

\* re.search(r'conda.*forge', out): "conda", later "forge", no line break between.
re_search_conda_forge(out) ==
    \E i, j \in 1..Len(out) :
        /\ i < j
        /\ out[i] = "conda"
        /\ out[j] = "forge"
        /\ \A k \in (i + 1)..(j - 1) : out[k] # "nl"

\* The first of include/coin-or, include/coin that is a directory, or None.
get_coin_inc_dir ==
    IF is_dir(CoinOr) THEN CoinOr
    ELSE IF is_dir(Coin) THEN Coin
    ELSE <<"None">>

\* The globs get_coin_lib_name(pkg) tries, in its order, each with the name it
\* returns: f"lib{lv}{pkg}*" and f"{lv}{pkg}" for lv in ['coin', ''].
LibVars ==
    [ metis |-> << [ lib_glob |-> "libcoinmetis*", name |-> "coinmetis" ],
                   [ lib_glob |-> "libmetis*", name |-> "metis" ] >>,
      mumps |-> << [ lib_glob |-> "libcoinmumps*", name |-> "coinmumps" ],
                   [ lib_glob |-> "libmumps*", name |-> "mumps" ] >> ]

\* get_coin_lib_name(pkg): the first name whose glob finds a file in lib, or
\* None.
get_coin_lib_name(pkg) ==
    LET found(i) == glob(fs, <<"lib">>, LibVars[pkg][i].lib_glob) # {}
    IN  IF found(1) THEN LibVars[pkg][1].name
        ELSE IF found(2) THEN LibVars[pkg][2].name
        ELSE "None"

\* Variant: force_build is not consulted.
allow_build_ignores_force(build_key) ==
    LET coin_dir == get_coin_inc_dir
    IN  IF coin_dir = <<"None">> THEN TRUE
        ELSE ~is_file(MarkerPath(coin_dir, build_key))

\* Variant: the marker test is inverted.
allow_build_inverted(build_key) ==
    LET coin_dir == get_coin_inc_dir
    IN  IF coin_dir = <<"None">> THEN TRUE
        ELSE opts.force_build \/ is_file(MarkerPath(coin_dir, build_key))

allow_build(build_key) ==
    LET coin_dir == get_coin_inc_dir
    IN  IF coin_dir = <<"None">> THEN TRUE
        ELSE opts.force_build \/ ~is_file(MarkerPath(coin_dir, build_key))

\* Variant: a source build goes ahead whatever allow_build returns.
skip_build_never(build_key) == FALSE

\* `if not allow_build(build_key): return` at the top of a source build.
skip_build(build_key) == ~allow_build(build_key)

\* Variant: IPOPT is included whatever --no-ipopt says.
include_ipopt_always == TRUE

\* opts['include_ipopt'] is True
include_ipopt == opts.include_ipopt = TRUE

\* packaging.version comparison of two parsed releases.
VerLT(a, b) ==
    \/ a[1] < b[1]
    \/ a[1] = b[1] /\ a[2] < b[2]
    \/ a[1] = b[1] /\ a[2] = b[2] /\ a[3] < b[3]

VerGE(a, b) == ~VerLT(a, b)

-----------------------------------------------------------------------------
(* Control: the call stack, external commands and exceptions *)

Frame(fn, key) == [ fn |-> fn, at |-> 0, key |-> key ]

\* The frame of a function called with the argument config_opts.
FrameOpts(fn, config_opts) ==
    [ fn |-> fn, at |-> 0, key |-> "", config_opts |-> config_opts ]

Cur == stack[Len(stack)]

Running(fn, at) ==
    /\ status = "running"
    /\ Len(stack) > 0
    /\ Cur.fn = fn
    /\ Cur.at = at

\* The stack with the current frame moved to position n.
Goto(n) == [ stack EXCEPT ![Len(stack)].at = n ]

\* The stack after calling fn(key); the caller resumes at position n.
Call(n, fn, key) == Append(Goto(n), Frame(fn, key))

\* The stack after the current function returns.
Return == SubSeq(stack, 1, Len(stack) - 1)

\* The stack after the current function calls fn(key) as its last statement.
TailCall(fn, key) == Append(Return, Frame(fn, key))

\* Call fn(config_opts=config_opts), and go on at position n afterwards.
CallOpts(n, fn, config_opts) == Append(Goto(n), FrameOpts(fn, config_opts))

Ev(op, key, ok) == [ op |-> op, key |-> key, ok |-> ok ]

\* The try blocks of the script: install_metis, install_mumps and
\* install_ipopt wrap their install_conda_pkg calls, and nothing else does.
\* A frame is inside its try block while it waits at one of these positions.
\* Variant: the source builds are inside the try blocks too.
TryPositions_with_source_build ==
    [ install_metis |-> {0, 5}, install_mumps |-> {0, 1, 2, 5}, install_ipopt |-> {0, 1, 5} ]

TryPositions ==
    [ install_metis |-> {0}, install_mumps |-> {0, 1, 2}, install_ipopt |-> {0, 1} ]

\* Where each of them continues after its except clause: the source build.
AfterExcept == 4

InTry(f) == f.fn \in DOMAIN TryPositions /\ f.at \in TryPositions[f.fn]

\* The package name each except clause hands to try_fallback.
FallbackPkg ==
    [ install_metis |-> "metis", install_mumps |-> "mumps", install_ipopt |-> "ipopt" ]

\* Variant: the exception is always swallowed.
try_fallback_raises_never == FALSE

\* Variant: the exception is always re-raised.
try_fallback_raises_always == TRUE

\* try_fallback(pkg, e) re-raises e unless the fall_back option is set.
try_fallback_raises == ~(opts.fall_back = TRUE)

\* An exception raised in the top frame of s: frames are dropped up to the
\* nearest enclosing try block, whose except clause calls try_fallback; with
\* no handler left the interpreter ends the process with status 1.
RECURSIVE Unwind(_, _)
Unwind(s, tr) ==
    IF s = <<>>
    THEN [ stack |-> <<>>, trace |-> tr, status |-> "exit1" ]
    ELSE LET f == s[Len(s)]
             rest == SubSeq(s, 1, Len(s) - 1)
         IN  IF InTry(f)
             THEN IF try_fallback_raises
                  THEN Unwind(rest, Append(tr, Ev("try_fallback", FallbackPkg[f.fn], FALSE)))
                  ELSE [ stack |-> Append(rest, [ f EXCEPT !.at = AfterExcept ]),
                         trace |-> Append(tr, Ev("try_fallback", FallbackPkg[f.fn], TRUE)),
                         status |-> "running" ]
             ELSE Unwind(rest, tr)

\* The current step raises, after the history became tr.
Raise(tr) ==
    LET u == Unwind(stack, tr)
    IN  /\ stack' = u.stack
        /\ trace' = u.trace
        /\ status' = u.status

\* run_cmd(cmd_list, do_check, raise_error): what the call does, given whether
\* the process exited with status zero.  subprocess.run raises
\* CalledProcessError only with check=do_check true; run_cmd re-raises it when
\* raise_error is true and otherwise returns result, which is still None.
run_cmd_outcome(exit_zero, do_check, raise_error) ==
    IF ~exit_zero /\ do_check
    THEN IF raise_error THEN "raises" ELSE "None"
    ELSE "CompletedProcess"

\* Variant: run_cmd never raises.
run_cmd_raises_never(exit_zero, do_check, raise_error) == FALSE

\* run_cmd(cmd_list, do_check, raise_error): whether the call raises, given
\* whether the process exited with status zero.
run_cmd_raises(exit_zero, do_check, raise_error) ==
    run_cmd_outcome(exit_zero, do_check, raise_error) = "raises"

\* One run_cmd(cmd_list) with the default do_check and raise_error, recorded
\* as op on key: the process exits zero and the script goes on with the
\* stack next, or it exits non-zero and run_cmd raises.
\* The command leaves the files under the prefix as newfs when it succeeds.
RunCmdFs(op, key, next, newfs) ==
    \E exit_zero \in BOOLEAN :
        IF run_cmd_raises(exit_zero, TRUE, TRUE)
        THEN Raise(Append(trace, Ev(op, key, FALSE))) /\ fs' = fs
        ELSE /\ trace' = Append(trace, Ev(op, key, exit_zero))
             /\ stack' = next
             /\ status' = status
             /\ fs' = IF exit_zero THEN newfs ELSE fs

RunCmd(op, key, next) == RunCmdFs(op, key, next, fs)

pushd(dirname) ==
    /\ dir_stack' = Append(dir_stack, cwd)
    /\ cwd' = dirname

\* Variant: popd changes directory and leaves the name on the list.
popd_without_pop ==
    /\ cwd' = dir_stack[Len(dir_stack)]
    /\ dir_stack' = dir_stack

popd ==
    /\ cwd' = dir_stack[Len(dir_stack)]
    /\ dir_stack' = SubSeq(dir_stack, 1, Len(dir_stack) - 1)

-----------------------------------------------------------------------------
(* The initial state: the module is loaded, nothing has run *)

DefaultArgs ==
    [ paropt |-> FALSE, branch |-> <<2, 13, 1>>, ignore_conda |-> FALSE,
      force_build |-> FALSE, fall_back |-> FALSE, no_sanity_check |-> FALSE,
      linear_solver |-> "mumps", no_install |-> FALSE, no_ipopt |-> FALSE,
      no_delete |-> FALSE, prefix |-> "home", snopt_dir |-> "None",
      hsl_tar_file |-> "None", uninstall |-> FALSE ]

DefaultOpts ==
    [ prefix |-> "home", linear_solver |-> "mumps", build_pyoptsparse |-> TRUE,
      snopt_dir |-> "None", hsl_tar_file |-> "None", include_paropt |-> FALSE,
      include_ipopt |-> TRUE, keep_build_dir |-> FALSE, check_sanity |-> TRUE,
      force_build |-> FALSE, ignore_conda |-> FALSE, compile_required |-> TRUE,
      uninstall |-> FALSE, pyoptsparse_version |-> <<"None">>, fall_back |-> FALSE,
      branch |-> <<2, 13, 1>>, intel_compiler_suite |-> FALSE,
      conda_cmd |-> "conda", make_name |-> "make" ]

\* os.cpu_count() of the hosts a run may be on: a single core, or several.
CpuCounts == { 1, 8 }

\* sys_info on a host with cpu_count logical cores.
SysInfo(cpu_count) ==
    [ conda_forge_available |-> FALSE, compile_cores |-> cpu_count \div 2 ]

DefaultSysInfo == { SysInfo(n) : n \in CpuCounts }

\* The commands the script looks for or runs by name.
AllCommands ==
    { "make", "git", "gcc", "g++", "gfortran", "icc", "icpc", "ifort",
      "swig", "conda", "tar", "mpicxx", "pip" }

\* The environments a run may start in, with every command on the search path.
Environments ==
    { [ PATH |-> AllCommands ],
      [ PATH |-> AllCommands, CONDA_PREFIX |-> "conda_env" ] }

\* The command lines of an install run that skips the sanity checks (-k).
\* An option that no step of the run reads stays at its default: -e without
\* a conda environment, -g when conda is not used to install.
Args ==
    { a \in [ paropt : BOOLEAN, branch : Versions, ignore_conda : BOOLEAN,
              force_build : BOOLEAN, fall_back : BOOLEAN, no_sanity_check : {TRUE},
              linear_solver : LinearSolvers, no_install : BOOLEAN,
              no_ipopt : BOOLEAN, no_delete : {FALSE}, prefix : {"home"},
              snopt_dir : {"None"}, hsl_tar_file : {"None", "hsl.tar.gz"},
              uninstall : {FALSE} ] :
        /\ (a.hsl_tar_file = "hsl.tar.gz") <=> (a.linear_solver = "hsl")
        /\ a.ignore_conda => conda_is_active
        /\ a.fall_back => conda_is_active /\ ~a.ignore_conda /\ ~a.force_build }

Init ==
    /\ env \in Environments
    /\ fs \in PrefixLayouts
    /\ fs0 = fs
    /\ args \in Args
    /\ opts = DefaultOpts
    /\ sys_info \in DefaultSysInfo
    /\ probe_out = <<"unset">>
    /\ cwd = <<"start">>
    /\ dir_stack = <<>>
    /\ stack = << Frame("perform_install", "") >>
    /\ status = "running"
    /\ trace = <<>>

-----------------------------------------------------------------------------
(* Start-up: process_command_line, initialize, finish_setup *)

\* Variant: the --uninstall option is not looked at.
uninstall_mode_never == FALSE

\* `if opts['uninstall']:` in perform_install.
uninstall_mode == opts.uninstall

\* Variant: the conda prefix is taken whenever a conda environment is active.
use_conda_prefix_whenever_active == conda_is_active

\* `if conda_is_active() and (opts['ignore_conda'] is False):` in initialize.
use_conda_prefix == conda_is_active /\ (opts.ignore_conda = FALSE)

\* perform_install(), up to the start of the installation.
perform_install_setup ==
    \/ /\ Running("perform_install", 0)
       /\ stack' = Call(1, "process_command_line", "")
       /\ UNCHANGED <<env, fs, conf, wd, status, trace>>
    \/ /\ Running("perform_install", 1)             \* initialize()
       /\ dir_stack' = <<>>
       /\ opts' = IF use_conda_prefix
                  THEN [ opts EXCEPT !.prefix = env["CONDA_PREFIX"] ]
                  ELSE IF venv_is_active
                  THEN [ opts EXCEPT !.prefix = env["VIRTUAL_ENV"] ]
                  ELSE opts
       /\ stack' = Goto(2)
       /\ UNCHANGED <<env, fs, fs0, args, sys_info, probe_out, cwd, status, trace>>
    \/ /\ Running("perform_install", 2)
       /\ stack' = IF uninstall_mode
                   THEN IF opts.ignore_conda = FALSE
                        THEN Call(6, "uninstall_conda_pkgs", "")
                        ELSE Call(7, "uninstall_built", "")
                   ELSE Call(3, "finish_setup", "")
       /\ UNCHANGED <<env, fs, conf, wd, status, trace>>

process_command_line ==
    \/ /\ Running("process_command_line", 0)   \* parse_args, conda settings, probe
       /\ LET parsed ==
                [ opts EXCEPT !.include_paropt = args.paropt,
                              !.include_ipopt = ~args.no_ipopt,
                              !.branch = args.branch,
                              !.ignore_conda = args.ignore_conda,
                              !.conda_cmd =
                                  IF (args.ignore_conda = FALSE) /\ conda_is_active
                                  THEN IF which("mamba") THEN "mamba" ELSE "conda"
                                  ELSE @ ]
          IN  IF (args.ignore_conda = FALSE) /\ conda_is_active
                 /\ (args.uninstall = FALSE)
              THEN \E out \in ProbeOutputs :
                     /\ RunCmd("conda_info", "", Goto(2))
                     /\ IF status' = "running"
                        THEN /\ probe_out' = out
                             /\ IF re_search_conda_forge(out)
                                THEN /\ sys_info' = [ sys_info EXCEPT
                                                        !.conda_forge_available = TRUE ]
                                     /\ opts' = parsed
                                ELSE /\ sys_info' = sys_info
                                     /\ opts' = [ parsed EXCEPT !.compile_required = TRUE ]
                        ELSE /\ opts' = parsed
                             /\ UNCHANGED <<probe_out, sys_info>>
              ELSE /\ stack' = Goto(2)
                   /\ opts' = parsed
                   /\ UNCHANGED <<fs, sys_info, probe_out, status, trace>>
       /\ UNCHANGED <<env, fs0, args, wd>>
    \/ /\ Running("process_command_line", 2)        \* the remaining options
       /\ opts' = [ opts EXCEPT !.keep_build_dir = args.no_delete,
                                !.force_build = args.force_build,
                                !.fall_back = args.fall_back,
                                !.check_sanity = ~args.no_sanity_check,
                                !.linear_solver = args.linear_solver,
                                !.intel_compiler_suite =
                                    (args.linear_solver = "pardiso"),
                                !.prefix = args.prefix,
                                !.build_pyoptsparse = ~args.no_install,
                                !.snopt_dir = args.snopt_dir,
                                !.hsl_tar_file = args.hsl_tar_file,
                                !.uninstall = args.uninstall ]
       /\ stack' = Return
       /\ UNCHANGED <<env, fs, fs0, args, sys_info, probe_out, wd, status, trace>>

\* os.environ after name got the value default unless it was set already.
SetDefault(e, name, default) ==
    IF name \in DOMAIN e THEN e ELSE (name :> default) @@ e

\* select_intel_compilers() and select_gnu_compilers(): CC, CXX and FC.
select_compilers ==
    IF opts.intel_compiler_suite = TRUE
    THEN SetDefault(SetDefault(SetDefault(env, "CC", "icc"), "CXX", "icpc"), "FC", "ifort")
    ELSE SetDefault(SetDefault(SetDefault(env, "CC", "gcc"), "CXX", "g++"), "FC", "gfortran")

\* opts['compile_required'] as finish_setup derives it.
compile_required ==
    (opts.build_pyoptsparse = TRUE)
    \/ ~(allow_install_with_conda /\ opts.snopt_dir = "None"
         /\ opts.include_paropt = FALSE
         /\ opts.hsl_tar_file = "None")

\* Variant: finish_setup leaves the parsed version as it was.
parsed_version_unset == opts.pyoptsparse_version

\* parse(pos_ver_str) in finish_setup: the release the branch option names.
parsed_version == opts.branch

finish_setup ==
    /\ Running("finish_setup", 0)
    /\ env' = select_compilers
    \* select_gnu_compilers runs gcc -dumpversion with subprocess.run
    /\ IF (opts.intel_compiler_suite = FALSE) /\ ~which("gcc")
       THEN /\ Raise(Append(trace, Ev("gcc_dumpversion", "", FALSE)))
            /\ opts' = opts
       ELSE /\ opts' = [ opts EXCEPT !.compile_required = compile_required,
                                     !.pyoptsparse_version = parsed_version ]
            \* check_sanity() is the last statement of finish_setup
            /\ stack' = IF opts.check_sanity
                        THEN TailCall("check_sanity", "") ELSE Return
            /\ UNCHANGED <<status, trace>>
    /\ UNCHANGED <<fs, fs0, args, sys_info, probe_out, wd>>

-----------------------------------------------------------------------------
(* What the external tools leave under the prefix *)

\* The dependency whose headers a conda package carries.
CondaHeaderOf ==
    ("metis" :> "metis") @@ ("mumps-include" :> "mumps") @@ ("ipopt" :> "ipopt")

\* The shared library a conda package puts into lib of the environment.
CondaLibOf ==
    ("metis" :> "libmetis.so") @@ ("mumps-mpi" :> "libmumps_common.so")
    @@ ("ipopt" :> "libipopt.so")

\* A successful `conda install`: packages that carry headers may put the
\* marker header where the resolver looks for it, or somewhere else.
CondaInstallFs(pkg_name) ==
    LET with_lib == IF pkg_name \in DOMAIN CondaLibOf
                    THEN WithFile(fs, <<"lib", CondaLibOf[pkg_name]>>)
                    ELSE fs
    IN  IF pkg_name \in DOMAIN CondaHeaderOf
        THEN { with_lib, WithFile(with_lib, MarkerPath(CoinOr, CondaHeaderOf[pkg_name])) }
        ELSE { with_lib }

\* The shared library each build installs into lib.
LibFile ==
    [ metis |-> "libcoinmetis.so", mumps |-> "libcoinmumps.so",
      ipopt |-> "libipopt.so", hsl |-> "libcoinhsl.so", paropt |-> "libparopt.so" ]

\* A successful `make install` of a source build: the headers go below
\* include/coin-or and the library into lib, as uninstall_built_item expects.
MakeInstallFs(build_key) ==
    WithFile(WithFile(fs, MarkerPath(CoinOr, build_key)),
             <<"lib", LibFile[build_key]>>)

\* The temporary directory git_clone creates for a build.
BuildDir(build_key) == <<"tmp", build_key>>

SetEnv(name, value) == (name :> value) @@ env

-----------------------------------------------------------------------------
(* Shorthands for external commands *)

install_conda_pkg(pkg_name, next) ==
    \E newfs \in CondaInstallFs(pkg_name) :
        RunCmdFs("conda_install", pkg_name, next, newfs)

pip_install(pkg_desc, next) == RunCmd("pip_install", pkg_desc, next)

\* git_clone(build_key): clone into a new directory, change to it, check
\* out the pinned branch.
git_clone ==
    \/ /\ Running("git_clone", 0)
       /\ RunCmd("git_clone", Cur.key, Goto(1))
       /\ UNCHANGED <<env, conf, wd>>
    \/ /\ Running("git_clone", 1)
       /\ pushd(BuildDir(Cur.key))
       /\ RunCmd("git_config", Cur.key, Goto(2))
       /\ UNCHANGED <<env, conf>>
    \/ /\ Running("git_clone", 2)
       /\ RunCmd("git_checkout", Cur.key, Return)
       /\ UNCHANGED <<env, conf, wd>>

\* Variant: every build uses the default number of make processes.
parallel_procs_default(build_key) == sys_info.compile_cores

\* The parallel_procs argument of make_install: install_mumps_from_src passes
\* 1, every other caller leaves the default, sys_info['compile_cores'].
parallel_procs(build_key) ==
    IF build_key = "mumps" THEN 1 ELSE sys_info.compile_cores

\* make_install(): `make`, then `make install` unless do_install is false
\* (only the ParOpt build passes do_install=False).
make_install ==
    \/ /\ Running("make_install", 0)
       /\ RunCmd("make", Cur.key, IF Cur.key = "paropt" THEN Return ELSE Goto(1))
       /\ env' = SetEnv("MAKEFLAGS", <<"-j", parallel_procs(Cur.key)>>)
       /\ UNCHANGED <<conf, wd>>
    \/ /\ Running("make_install", 1)
       /\ RunCmdFs("make_install", Cur.key, Return, MakeInstallFs(Cur.key))
       /\ UNCHANGED <<env, conf, wd>>

-----------------------------------------------------------------------------
(* METIS *)

install_metis_from_src ==
    \/ /\ Running("install_metis_from_src", 0)
       /\ trace' = Append(trace, Ev("allow_build", "metis", allow_build("metis")))
       /\ stack' = IF skip_build("metis") THEN Return
                   ELSE Call(1, "git_clone", "metis")
       /\ UNCHANGED <<env, fs, conf, wd, status>>
    \/ /\ Running("install_metis_from_src", 1)
       /\ env' = SetEnv("METIS_DIR", "tmp_metis")
       /\ RunCmd("pre_configure", "metis", Goto(2))
       /\ UNCHANGED <<conf, wd>>
    \/ /\ Running("install_metis_from_src", 2)
       /\ env' = SetEnv("CFLAGS", "-Wno-implicit-function-declaration")
       /\ RunCmd("configure", "metis", Call(3, "make_install", "metis"))
       /\ UNCHANGED <<conf, wd>>
    \/ /\ Running("install_metis_from_src", 3)
       /\ popd
       /\ stack' = Return
       /\ UNCHANGED <<env, fs, conf, status, trace>>

install_metis ==
    \/ /\ Running("install_metis", 0)
       /\ IF allow_install_with_conda /\ (opts.force_build = FALSE)
          THEN install_conda_pkg("metis", Goto(1))
          ELSE /\ stack' = Call(5, "install_metis_from_src", "")
               /\ UNCHANGED <<fs, status, trace>>
       /\ UNCHANGED <<env, conf, wd>>
    \/ /\ Running("install_metis", 1)
       /\ env' = SetEnv("METIS_DIR", env["CONDA_PREFIX"])
       /\ stack' = Return
       /\ UNCHANGED <<fs, conf, wd, status, trace>>
    \/ /\ Running("install_metis", AfterExcept)
       /\ stack' = Call(5, "install_metis_from_src", "")
       /\ UNCHANGED <<env, fs, conf, wd, status, trace>>
    \/ /\ Running("install_metis", 5)
       /\ stack' = Return
       /\ UNCHANGED <<env, fs, conf, wd, status, trace>>

-----------------------------------------------------------------------------
(* MUMPS *)

install_mumps_from_src ==
    \/ /\ Running("install_mumps_from_src", 0)
       /\ trace' = Append(trace, Ev("allow_build", "mumps", allow_build("mumps")))
       /\ stack' = IF skip_build("mumps") THEN Return
                   ELSE Call(1, "git_clone", "mumps")
       /\ UNCHANGED <<env, fs, conf, wd, status>>
    \/ /\ Running("install_mumps_from_src", 1)
       /\ RunCmd("pre_configure", "mumps", Goto(2))
       /\ UNCHANGED <<env, conf, wd>>
    \/ /\ Running("install_mumps_from_src", 2)
       /\ RunCmd("configure", "mumps", Call(3, "make_install", "mumps"))
       /\ UNCHANGED <<env, conf, wd>>
    \/ /\ Running("install_mumps_from_src", 3)
       /\ popd
       /\ stack' = Return
       /\ UNCHANGED <<env, fs, conf, status, trace>>

install_mumps ==
    \/ /\ Running("install_mumps", 0)
       /\ IF allow_install_with_conda /\ (opts.force_build = FALSE)
          THEN install_conda_pkg("mumps-include", Goto(1))
          ELSE /\ stack' = Call(5, "install_mumps_from_src", "")
               /\ UNCHANGED <<fs, status, trace>>
       /\ UNCHANGED <<env, conf, wd>>
    \/ /\ Running("install_mumps", 1)
       /\ install_conda_pkg("mumps-seq", Goto(2))
       /\ UNCHANGED <<env, conf, wd>>
    \/ /\ Running("install_mumps", 2)
       /\ install_conda_pkg("mumps-mpi", Return)
       /\ UNCHANGED <<env, conf, wd>>
    \/ /\ Running("install_mumps", AfterExcept)
       /\ stack' = Call(5, "install_mumps_from_src", "")
       /\ UNCHANGED <<env, fs, conf, wd, status, trace>>
    \/ /\ Running("install_mumps", 5)
       /\ stack' = Return
       /\ UNCHANGED <<env, fs, conf, wd, status, trace>>

-----------------------------------------------------------------------------
(* IPOPT *)

\* opts['pyoptsparse_version'] >= parse('2.14')
NeedsCyipopt == VerGE(opts.pyoptsparse_version, <<2, 14, 0>>)

install_ipopt_from_src ==
    \/ /\ Running("install_ipopt_from_src", 0)
       /\ trace' = Append(trace, Ev("allow_build", "ipopt", allow_build("ipopt")))
       /\ stack' = IF skip_build("ipopt") \/ ~include_ipopt
                   THEN Return
                   ELSE Call(1, "git_clone", "ipopt")
       /\ UNCHANGED <<env, fs, conf, wd, status>>
    \/ /\ Running("install_ipopt_from_src", 1)
       /\ RunCmd("configure", "ipopt", Call(2, "make_install", "ipopt"))
       /\ UNCHANGED <<env, conf, wd>>
    \/ /\ Running("install_ipopt_from_src", 2)
       /\ popd
       /\ stack' = Return
       /\ UNCHANGED <<env, fs, conf, status, trace>>

install_ipopt ==
    \/ /\ Running("install_ipopt", 0)
       /\ IF allow_install_with_conda /\ (opts.force_build = FALSE)
          THEN install_conda_pkg("ipopt", IF NeedsCyipopt THEN Goto(1) ELSE Return)
          ELSE /\ stack' = CallOpts(5, "install_ipopt_from_src", Cur.config_opts)
               /\ UNCHANGED <<fs, status, trace>>
       /\ env' = IF NeedsCyipopt THEN SetEnv("PKG_CONFIG_PATH", "lib/pkgconfig") ELSE env
       /\ UNCHANGED <<conf, wd>>
    \/ /\ Running("install_ipopt", 1)
       /\ install_conda_pkg("cyipopt", Return)
       /\ UNCHANGED <<env, conf, wd>>
    \/ /\ Running("install_ipopt", AfterExcept)
       /\ stack' = CallOpts(5, "install_ipopt_from_src", Cur.config_opts)
       /\ UNCHANGED <<env, fs, conf, wd, status, trace>>
    \/ /\ Running("install_ipopt", 5)
       /\ IF NeedsCyipopt
          THEN pip_install("cyipopt", Return)
          ELSE /\ stack' = Return
               /\ UNCHANGED <<fs, status, trace>>
       /\ UNCHANGED <<env, conf, wd>>

-----------------------------------------------------------------------------
(* HSL *)

install_hsl_from_src ==
    \/ /\ Running("install_hsl_from_src", 0)
       /\ trace' = Append(trace, Ev("allow_build", "hsl", allow_build("hsl")))
       /\ stack' = IF skip_build("hsl") THEN Return
                   ELSE Call(1, "git_clone", "hsl")
       /\ UNCHANGED <<env, fs, conf, wd, status>>
    \/ /\ Running("install_hsl_from_src", 1)        \* tarfile.open, getnames
       /\ IF opts.hsl_tar_file = "None"
          THEN Raise(Append(trace, Ev("tarfile_open", "hsl", FALSE))) /\ fs' = fs
          ELSE RunCmd("tarfile_open", "hsl", Goto(2))
       /\ UNCHANGED <<env, conf, wd>>
    \/ /\ Running("install_hsl_from_src", 2)        \* tar xf, rename to coinhsl
       /\ RunCmd("pre_configure", "hsl", Goto(3))
       /\ UNCHANGED <<env, conf, wd>>
    \/ /\ Running("install_hsl_from_src", 3)
       /\ RunCmd("configure", "hsl", Call(4, "make_install", "hsl"))
       /\ UNCHANGED <<env, conf, wd>>
    \/ /\ Running("install_hsl_from_src", 4)
       /\ popd
       /\ stack' = Return
       /\ UNCHANGED <<env, fs, conf, status, trace>>

-----------------------------------------------------------------------------
(* ParOpt and pyOptSparse *)

install_paropt_from_src ==
    \/ /\ Running("install_paropt_from_src", 0)
       /\ stack' = Call(1, "git_clone", "paropt")
       /\ UNCHANGED <<env, fs, conf, wd, status, trace>>
    \/ /\ Running("install_paropt_from_src", 1)     \* os.environ["METIS_DIR"]
       /\ IF "METIS_DIR" \in DOMAIN env
          THEN /\ stack' = Call(2, "make_install", "paropt")
               /\ UNCHANGED <<status, trace>>
          ELSE Raise(Append(trace, Ev("read_METIS_DIR", "paropt", FALSE)))
       /\ UNCHANGED <<env, fs, conf, wd>>
    \/ /\ Running("install_paropt_from_src", 2)
       /\ pip_install("paropt", Goto(3))
       /\ UNCHANGED <<env, conf, wd>>
    \/ /\ Running("install_paropt_from_src", 3)     \* copy libparopt*, popd
       /\ fs' = WithFile(fs, <<"lib", LibFile["paropt"]>>)
       /\ popd
       /\ stack' = Return
       /\ UNCHANGED <<env, conf, status, trace>>

patch_pyoptsparse_src ==
    \/ /\ Running("patch_pyoptsparse_src", 0)
       /\ IF VerLT(opts.pyoptsparse_version, <<2, 6, 3>>)
          THEN pushd(cwd \o <<"pyoptsparse", "pyIPOPT">>) /\ stack' = Goto(1)
          ELSE UNCHANGED wd /\ stack' = Return
       /\ UNCHANGED <<env, fs, conf, status, trace>>
    \/ /\ Running("patch_pyoptsparse_src", 1)
       /\ popd
       /\ stack' = Return
       /\ UNCHANGED <<env, fs, conf, status, trace>>

install_pyoptsparse_from_src ==
    \/ /\ Running("install_pyoptsparse_from_src", 0)
       /\ pip_install("Cython", Goto(1))
       /\ UNCHANGED <<env, conf, wd>>
    \/ /\ Running("install_pyoptsparse_from_src", 1)
       /\ stack' = IF opts.include_paropt = TRUE
                   THEN Call(2, "install_paropt_from_src", "")
                   ELSE Call(3, "git_clone", "pyoptsparse")
       /\ UNCHANGED <<env, fs, conf, wd, status, trace>>
    \/ /\ Running("install_pyoptsparse_from_src", 2)
       /\ stack' = Call(3, "git_clone", "pyoptsparse")
       /\ UNCHANGED <<env, fs, conf, wd, status, trace>>
    \/ /\ Running("install_pyoptsparse_from_src", 3)
       \* os.environ['IPOPT_INC'] = get_coin_inc_dir() raises when it is None
       /\ IF include_ipopt /\ get_coin_inc_dir = <<"None">>
          THEN /\ Raise(Append(trace, Ev("set_IPOPT_INC", "pyoptsparse", FALSE)))
               /\ env' = env
          ELSE /\ env' = IF include_ipopt
                         THEN SetEnv("CFLAGS", "-std=c99") @@ SetEnv("IPOPT_INC", "coin_dir")
                         ELSE SetEnv("CFLAGS", "-std=c99")
               /\ stack' = IF opts.build_pyoptsparse = TRUE
                           THEN Call(4, "patch_pyoptsparse_src", "")
                           ELSE Goto(5)
               /\ UNCHANGED <<status, trace>>
       /\ UNCHANGED <<fs, conf, wd>>
    \/ /\ Running("install_pyoptsparse_from_src", 4)
       /\ pip_install("pyoptsparse", Goto(5))
       /\ UNCHANGED <<env, conf, wd>>
    \/ /\ Running("install_pyoptsparse_from_src", 5)
       /\ popd
       /\ stack' = Return
       /\ UNCHANGED <<env, fs, conf, status, trace>>

-----------------------------------------------------------------------------
(* The three solver variants and the end of the run *)

\* config_opts=None: install_with_pardiso passes no options.
NoConfigOpts == [ solver |-> "None", coin_dir |-> <<"None">>, lib |-> "None" ]

\* ipopt_opts as install_with_mumps and install_with_hsl assemble them: the
\* include directory and the library name the flags are built from
\* (-I{coin_dir}/mumps and -l{mumps_lib}; -I{coin_dir}/hsl and -l{metis_lib}).
ipopt_opts(solver) ==
    [ solver |-> solver,
      coin_dir |-> get_coin_inc_dir,
      lib |-> get_coin_lib_name(IF solver = "mumps" THEN "mumps" ELSE "metis") ]

install_with_mumps ==
    \/ /\ Running("install_with_mumps", 0)
       /\ stack' = Call(1, "install_metis", "")
       /\ UNCHANGED <<env, fs, conf, wd, status, trace>>
    \/ /\ Running("install_with_mumps", 1)
       /\ stack' = Call(2, "install_mumps", "")
       /\ UNCHANGED <<env, fs, conf, wd, status, trace>>
    \/ /\ Running("install_with_mumps", 2)
       /\ stack' = IF include_ipopt
                   THEN CallOpts(3, "install_ipopt", ipopt_opts("mumps"))
                   ELSE Return
       /\ UNCHANGED <<env, fs, conf, wd, status, trace>>
    \/ /\ Running("install_with_mumps", 3)
       /\ stack' = Return
       /\ UNCHANGED <<env, fs, conf, wd, status, trace>>

install_with_hsl ==
    \/ /\ Running("install_with_hsl", 0)
       /\ stack' = Call(1, "install_metis", "")
       /\ UNCHANGED <<env, fs, conf, wd, status, trace>>
    \/ /\ Running("install_with_hsl", 1)
       /\ stack' = Call(2, "install_hsl_from_src", "")
       /\ UNCHANGED <<env, fs, conf, wd, status, trace>>
    \/ /\ Running("install_with_hsl", 2)
       /\ stack' = CallOpts(3, "install_ipopt_from_src", ipopt_opts("hsl"))
       /\ UNCHANGED <<env, fs, conf, wd, status, trace>>
    \/ /\ Running("install_with_hsl", 3)
       /\ stack' = Call(4, "install_pyoptsparse_from_src", "")
       /\ UNCHANGED <<env, fs, conf, wd, status, trace>>
    \/ /\ Running("install_with_hsl", 4)
       /\ stack' = Return
       /\ UNCHANGED <<env, fs, conf, wd, status, trace>>

install_with_pardiso ==
    \/ /\ Running("install_with_pardiso", 0)
       /\ stack' = CallOpts(1, "install_ipopt_from_src", NoConfigOpts)
       /\ UNCHANGED <<env, fs, conf, wd, status, trace>>
    \/ /\ Running("install_with_pardiso", 1)
       /\ stack' = Call(2, "install_pyoptsparse_from_src", "")
       /\ UNCHANGED <<env, fs, conf, wd, status, trace>>
    \/ /\ Running("install_with_pardiso", 2)
       /\ stack' = Return
       /\ UNCHANGED <<env, fs, conf, wd, status, trace>>

\* The activate/deactivate scripts install_conda_scripts writes.
CondaScripts ==
    { <<"etc", "conda", "activate.d", "pyoptsparse_lib.sh">>,
      <<"etc", "conda", "deactivate.d", "pyoptsparse_lib.sh">> }

\* perform_install(), from 'Beginning installation' on.
perform_install_run ==
    \/ /\ Running("perform_install", 3)
       /\ stack' = CASE opts.linear_solver = "mumps" -> Call(4, "install_with_mumps", "")
                     [] opts.linear_solver = "pardiso" -> Call(5, "install_with_pardiso", "")
                     [] opts.linear_solver = "hsl" -> Call(5, "install_with_hsl", "")
       /\ UNCHANGED <<env, fs, conf, wd, status, trace>>
    \/ /\ Running("perform_install", 4)
       /\ stack' = Call(5, "install_pyoptsparse_from_src", "")
       /\ UNCHANGED <<env, fs, conf, wd, status, trace>>
    \/ /\ Running("perform_install", 5)             \* post_build_success()
       /\ fs' = IF allow_install_with_conda
                THEN [ dirs |-> fs.dirs \cup UNION { Ancestors(p) \ {p} : p \in CondaScripts },
                       files |-> fs.files \cup CondaScripts ]
                ELSE fs
       /\ trace' = Append(trace, Ev("announce", "SUCCESS!", TRUE))
       /\ status' = "exit0"
       /\ stack' = <<>>
       /\ UNCHANGED <<env, conf, wd>>

-----------------------------------------------------------------------------
(* The install run that skips the sanity checks *)

Next ==
    \/ perform_install_setup
    \/ process_command_line
    \/ finish_setup
    \/ perform_install_run
    \/ install_with_mumps
    \/ install_with_hsl
    \/ install_with_pardiso
    \/ install_metis
    \/ install_metis_from_src
    \/ install_mumps
    \/ install_mumps_from_src
    \/ install_ipopt
    \/ install_ipopt_from_src
    \/ install_hsl_from_src
    \/ install_paropt_from_src
    \/ patch_pyoptsparse_src
    \/ install_pyoptsparse_from_src
    \/ git_clone
    \/ make_install

Spec == Init /\ [][Next]_vars

-----------------------------------------------------------------------------
(* The sanity checks: check_sanity, check_compiler_sanity, check_library *)

\* The files and directories outside the prefix that a command line may name.
UserFiles == { "hsl.tar.gz" }
UserDirs == { "snopt_src" }

\* check_make: the make command the run will use.
make_name ==
    IF "MAKE" \in DOMAIN env THEN env["MAKE"]
    ELSE IF which("gmake") THEN "gmake"
    ELSE opts.make_name

\* The toolchain is needed: opts['compile_required'] or opts['fall_back'].
toolchain_needed == (opts.compile_required = TRUE) \/ (opts.fall_back = TRUE)

\* required_cmds of check_sanity, in the order the code collects them.
required_cmds ==
    (IF toolchain_needed
     THEN << "git", env["CC"], env["CXX"], env["FC"] >>
          \o (IF opts.build_pyoptsparse = TRUE THEN << "swig" >> ELSE << >>)
     ELSE << >>)
    \o (IF opts.compile_required = FALSE THEN << opts.conda_cmd >> ELSE << >>)
    \o (IF opts.hsl_tar_file # "None" THEN << "tar" >> ELSE << >>)
    \o (IF opts.include_paropt = TRUE THEN << "mpicxx" >> ELSE << >>)

\* The errors about the inputs the user supplied, in the order of the code.
input_errors ==
    (IF opts.hsl_tar_file # "None" /\ opts.hsl_tar_file \notin UserFiles
     THEN << "HSL tar file" >> ELSE << >>)
    \o (IF opts.include_paropt = TRUE /\ VerLT(opts.pyoptsparse_version, <<2, 1, 2>>)
        THEN << "PAROPT version" >> ELSE << >>)
    \o (IF opts.snopt_dir # "None" /\ opts.snopt_dir \notin UserDirs
        THEN << "SNOPT folder" >> ELSE << >>)

\* Variant: the search for required commands stops at the first one missing.
missing_cmds_first_only(cmds) ==
    LET missing == SelectSeq(cmds, LAMBDA c : ~which(c))
    IN  IF missing = << >> THEN missing ELSE << missing[1] >>

\* find_required_command over cmds: the commands that are not on the path.
missing_cmds(cmds) ==
    SelectSeq(cmds, LAMBDA c : ~which(c))

\* The errors list of check_sanity when it reaches `if len(errors) > 0`.
sanity_errors ==
    (IF toolchain_needed THEN missing_cmds(<< make_name >>) ELSE << >>)
    \o input_errors
    \o missing_cmds(required_cmds)

\* One printed error line per entry of errs.
ErrorLines(errs) == [ i \in 1..Len(errs) |-> Ev("error", errs[i], FALSE) ]

\* The condition under which check_sanity runs the toolchain tests.
toolchain_tests_wanted == toolchain_needed

check_sanity ==
    \/ /\ Running("check_sanity", 0)
       /\ opts' = IF toolchain_needed
                  THEN [ opts EXCEPT !.make_name = make_name ] ELSE opts
       /\ IF Len(sanity_errors) > 0
          THEN /\ trace' = (trace \o ErrorLines(sanity_errors))
                               \o << Ev("exit", "1", TRUE) >>
               /\ status' = "exit1"
               /\ stack' = << >>
          ELSE /\ stack' = IF toolchain_tests_wanted
                           THEN Call(1, "check_compiler_sanity", "")
                           ELSE Return
               /\ UNCHANGED <<status, trace>>
       /\ UNCHANGED <<env, fs, fs0, args, sys_info, probe_out, wd>>
    \/ /\ Running("check_sanity", 1)
       /\ stack' = Call(2, "check_library", "lapack")
       /\ UNCHANGED <<env, fs, conf, wd, status, trace>>
    \/ /\ Running("check_sanity", 2)
       /\ stack' = Call(3, "check_library", "blas")
       /\ UNCHANGED <<env, fs, conf, wd, status, trace>>
    \/ /\ Running("check_sanity", 3)
       /\ stack' = IF opts.build_pyoptsparse = TRUE
                   THEN Call(4, "check_library", "openblas")
                   ELSE Return
       /\ UNCHANGED <<env, fs, conf, wd, status, trace>>
    \/ /\ Running("check_sanity", 4)               \* the openblas warning
       /\ stack' = Return
       /\ UNCHANGED <<env, fs, conf, wd, status, trace>>

\* The temporary directory of a sanity test.
TestDir(name) == << "tmp", name >>

\* Variant: no library is required.
raise_on_failure_never(libname) == FALSE

\* The raise_on_failure argument of check_library: check_sanity passes False
\* for openblas and leaves the default for lapack and blas.
raise_on_failure(libname) == libname # "openblas"

check_library ==
    \/ /\ Running("check_library", 0)
       /\ pushd(TestDir("check_library"))
       /\ stack' = Goto(1)
       /\ UNCHANGED <<env, fs, conf, status, trace>>
    \/ /\ Running("check_library", 1)              \* cc -o hello_c hello.c -l<lib>
       /\ \E exit_zero \in BOOLEAN :
            LET success == /\ run_cmd_outcome(exit_zero, TRUE, FALSE) # "None"
                           /\ ~run_cmd_raises(exit_zero, TRUE, FALSE)
                           /\ exit_zero
                tr == Append(trace, Ev("check_library", Cur.key, success))
            IN  IF ~success /\ raise_on_failure(Cur.key)
                THEN Raise(tr) /\ UNCHANGED wd
                ELSE /\ trace' = tr
                     /\ popd
                     /\ stack' = Return
                     /\ status' = status
       /\ UNCHANGED <<env, fs, conf>>

check_compiler_sanity ==
    \/ /\ Running("check_compiler_sanity", 0)
       /\ pushd(TestDir("check_compiler_sanity"))
       /\ RunCmd("compile", "hello.c", Goto(1))
       /\ UNCHANGED <<env, conf>>
    \/ /\ Running("check_compiler_sanity", 1)
       /\ RunCmd("run", "hello_c", Goto(2))
       /\ UNCHANGED <<env, conf, wd>>
    \/ /\ Running("check_compiler_sanity", 2)
       /\ RunCmd("compile", "hello.cc", Goto(3))
       /\ UNCHANGED <<env, conf, wd>>
    \/ /\ Running("check_compiler_sanity", 3)
       /\ RunCmd("run", "hello_cxx", IF opts.include_paropt THEN Goto(4) ELSE Goto(6))
       /\ UNCHANGED <<env, conf, wd>>
    \/ /\ Running("check_compiler_sanity", 4)
       /\ RunCmd("compile", "hello_cxx_mpi", Goto(5))
       /\ UNCHANGED <<env, conf, wd>>
    \/ /\ Running("check_compiler_sanity", 5)
       /\ RunCmd("run", "hello_cxx_mpi", Goto(6))
       /\ UNCHANGED <<env, conf, wd>>
    \/ /\ Running("check_compiler_sanity", 6)
       /\ RunCmd("compile", "hello.f90", Goto(7))
       /\ UNCHANGED <<env, conf, wd>>
    \/ /\ Running("check_compiler_sanity", 7)
       /\ RunCmd("run", "hello_f", Return)
       /\ IF status' = "running" THEN popd ELSE UNCHANGED wd
       /\ UNCHANGED <<env, conf>>

-----------------------------------------------------------------------------
(* The install run with the sanity checks *)

\* Search paths a run may start with: everything found, or some commands
\* missing.
SearchPaths ==
    { AllCommands,
      AllCommands \ { "git", "swig" },
      AllCommands \ { "tar", "mpicxx" },
      AllCommands \ { "gcc" } }

EnvironmentsSanity ==
    { [ PATH |-> path ] : path \in SearchPaths }
    \cup { [ PATH |-> path, CONDA_PREFIX |-> "conda_env" ] : path \in SearchPaths }

\* A release older than the first one ParOpt is supported with.
OldVersion == <<2, 1, 1>>

\* The command lines of an install run that does not skip the sanity checks.
\* The HSL archive is named only with the HSL solver, and may not exist; the
\* SNOPT directory, when named, does not exist; the old release is asked for
\* only together with ParOpt.
ArgsSanity ==
    { a \in [ paropt : BOOLEAN, branch : Versions \cup {OldVersion},
              ignore_conda : BOOLEAN,
              force_build : BOOLEAN, fall_back : BOOLEAN, no_sanity_check : {FALSE},
              linear_solver : LinearSolvers, no_install : BOOLEAN,
              no_ipopt : BOOLEAN, no_delete : {FALSE}, prefix : {"home"},
              snopt_dir : {"None", "no_such_dir"},
              hsl_tar_file : {"None", "hsl.tar.gz", "no_such.tar.gz"},
              uninstall : {FALSE} ] :
        /\ (a.hsl_tar_file # "None") => (a.linear_solver = "hsl")
        /\ (a.branch = OldVersion) => a.paropt
        /\ a.ignore_conda => conda_is_active
        /\ a.fall_back => conda_is_active /\ ~a.ignore_conda /\ ~a.force_build }

\* Prefix contents a run with sanity checks may start from.
SanityLayouts == { fs_ \in PrefixLayouts : fs_.dirs = {} \/ Coin \notin fs_.dirs }

InitSanity ==
    /\ env \in EnvironmentsSanity
    /\ fs \in SanityLayouts
    /\ fs0 = fs
    /\ args \in ArgsSanity
    /\ opts = DefaultOpts
    /\ sys_info = SysInfo(8)
    /\ probe_out = <<"unset">>
    /\ cwd = <<"start">>
    /\ dir_stack = <<>>
    /\ stack = << Frame("perform_install", "") >>
    /\ status = "running"
    /\ trace = <<>>

NextSanity ==
    \/ Next
    \/ check_sanity
    \/ check_compiler_sanity
    \/ check_library

SpecSanity == InitSanity /\ [][NextSanity]_vars

-----------------------------------------------------------------------------
(* Uninstalling *)

\* Path.unlink() of every file of ps.
unlink(f, ps) == [ f EXCEPT !.files = @ \ ps ]

\* shutil.rmtree(d)
rmtree(f, d) ==
    [ dirs |-> { x \in f.dirs : x # d /\ ~Under(x, d) },
      files |-> { x \in f.files : ~Under(x, d) } ]

\* try: d.rmdir() except: pass -- removes d when it is an empty directory.
try_rmdir(f, d) ==
    IF d \in f.dirs /\ ~\E x \in f.dirs \cup f.files : Under(x, d)
    THEN [ f EXCEPT !.dirs = @ \ {d} ]
    ELSE f

\* The include part of uninstall_built_item(build_key).
uninstall_includes(f, build_key) ==
    LET d == build_info[build_key]
    IN  IF "include_subdir" \notin DOMAIN d THEN f
        ELSE LET inc_dir == PathJoin(CoinOr, d.include_subdir)
             IN  IF "include_glob_list" \in DOMAIN d
                 THEN try_rmdir(
                          unlink(f, UNION { glob(f, inc_dir, d.include_glob_list[i]) :
                                            i \in 1..Len(d.include_glob_list) }),
                          inc_dir)
                 ELSE IF inc_dir \in f.dirs THEN rmtree(f, inc_dir) ELSE f

\* Variant: the library files are left where they are.
uninstall_libs_kept(f, build_key) == f

\* The library part of uninstall_built_item(build_key).
uninstall_libs(f, build_key) ==
    LET d == build_info[build_key]
    IN  IF "src_lib_glob" \in DOMAIN d
        THEN unlink(f, glob(f, <<"lib">>, d.src_lib_glob))
        ELSE f

uninstall_built_item ==
    /\ Running("uninstall_built_item", 0)
    /\ fs' = uninstall_libs(uninstall_includes(fs, Cur.key), Cur.key)
    /\ trace' = Append(trace, Ev("uninstall_built_item", Cur.key, TRUE))
    /\ stack' = Return
    /\ UNCHANGED <<env, conf, wd, status>>

\* One run_cmd(cmd_list, do_check=False), recorded as op on key: the exit
\* status is not looked at (the event says the command was run), and the
\* command leaves the files under the prefix as newfs when it exits zero.
RunCmdNoCheck(op, key, next, newfs) ==
    \E exit_zero \in BOOLEAN :
        IF run_cmd_raises(exit_zero, FALSE, TRUE)
        THEN Raise(Append(trace, Ev(op, key, FALSE))) /\ fs' = fs
        ELSE /\ trace' = Append(trace, Ev(op, key, TRUE))
             /\ stack' = next
             /\ status' = status
             /\ fs' = IF exit_zero THEN newfs ELSE fs

uninstall_paropt_and_pyoptsparse ==
    \/ /\ Running("uninstall_paropt_and_pyoptsparse", 0)
       /\ RunCmdNoCheck("pip_uninstall", "pyOptSparse", Goto(1), fs)
       /\ UNCHANGED <<env, conf, wd>>
    \/ /\ Running("uninstall_paropt_and_pyoptsparse", 1)
       /\ RunCmdNoCheck("pip_uninstall", "paropt",
                        TailCall("uninstall_built_item", "paropt"), fs)
       /\ UNCHANGED <<env, conf, wd>>

\* Variant: the dependencies are removed in build order.
uninstall_order_forward == << "metis", "mumps", "hsl", "ipopt" >>

\* The build keys uninstall_built loops over, in its order.
uninstall_order == << "ipopt", "hsl", "mumps", "metis" >>

\* remove_conda_scripts(): the two scripts are unlinked when they exist.
remove_conda_scripts ==
    /\ Running("remove_conda_scripts", 0)
    /\ IF conda_is_active /\ (opts.ignore_conda = FALSE)
       THEN /\ fs' = unlink(fs, CondaScripts)
            /\ trace' = Append(trace, Ev("remove_conda_scripts", "", TRUE))
       ELSE UNCHANGED <<fs, trace>>
    /\ stack' = Return
    /\ UNCHANGED <<env, conf, wd, status>>

uninstall_built ==
    \/ /\ Running("uninstall_built", 0)
       /\ stack' = Call(1, "uninstall_paropt_and_pyoptsparse", "")
       /\ UNCHANGED <<env, fs, conf, wd, status, trace>>
    \/ /\ status = "running"                        \* the for loop
       /\ Len(stack) > 0
       /\ Cur.fn = "uninstall_built"
       /\ Cur.at \in 1..Len(uninstall_order)
       /\ stack' = Call(Cur.at + 1, "uninstall_built_item", uninstall_order[Cur.at])
       /\ UNCHANGED <<env, fs, conf, wd, status, trace>>
    \/ /\ Running("uninstall_built", Len(uninstall_order) + 1)
       /\ stack' = IF opts.ignore_conda = FALSE
                   THEN TailCall("remove_conda_scripts", "")
                   ELSE Return
       /\ UNCHANGED <<env, fs, conf, wd, status, trace>>

\* The conda packages uninstall_conda_pkgs removes, in its order.
conda_uninstall_order ==
    << "ipopt", "mumps", "mumps-include", "mumps-seq", "mumps-mpi", "metis" >>

\* A successful `conda uninstall`: the header the package carries is gone.
CondaUninstallFs(pkg_name) ==
    unlink(fs, (IF pkg_name \in DOMAIN CondaHeaderOf
                THEN { MarkerPath(CoinOr, CondaHeaderOf[pkg_name]) } ELSE {})
               \cup (IF pkg_name \in DOMAIN CondaLibOf
                     THEN { <<"lib", CondaLibOf[pkg_name]>> } ELSE {}))

uninstall_conda_pkgs ==
    /\ status = "running"
    /\ Len(stack) > 0
    /\ Cur.fn = "uninstall_conda_pkgs"
    /\ IF ~conda_is_active
       THEN /\ stack' = Return
            /\ UNCHANGED <<fs, status, trace>>
       ELSE LET pkg == conda_uninstall_order[Cur.at + 1]
            IN  RunCmdNoCheck("conda_uninstall", pkg,
                              IF Cur.at + 1 = Len(conda_uninstall_order)
                              THEN Return ELSE Goto(Cur.at + 1),
                              CondaUninstallFs(pkg))
    /\ UNCHANGED <<env, conf, wd>>

\* perform_install(), the uninstall branch.
perform_install_uninstall ==
    \/ /\ Running("perform_install", 6)
       /\ stack' = Call(7, "uninstall_built", "")
       /\ UNCHANGED <<env, fs, conf, wd, status, trace>>
    \/ /\ Running("perform_install", 7)             \* exit(0)
       /\ trace' = Append(trace, Ev("exit", "0", TRUE))
       /\ status' = "exit0"
       /\ stack' = <<>>
       /\ UNCHANGED <<env, fs, conf, wd>>

-----------------------------------------------------------------------------
(* Uninstall runs, the second one against the prefix the first one left *)

\* What may be below the prefix when an uninstall run starts.
Artifacts ==
    { MarkerPath(CoinOr, "metis"), MarkerPath(CoinOr, "ipopt"),
      MarkerPath(CoinOr, "hsl"), MarkerPath(Coin, "mumps"),
      PathJoin(CoinOr, "other.h"),
      <<"lib", LibFile["metis"]>>, <<"lib", LibFile["paropt"]>>,
      <<"etc", "conda", "activate.d", "pyoptsparse_lib.sh">> }

\* The file system holding exactly the files ps.
FsOf(ps) ==
    [ dirs |-> UNION { Ancestors(p) \ {p} : p \in ps }, files |-> ps ]

\* What a source build of METIS, MUMPS and IPOPT leaves below the prefix: the
\* files of MakeInstallFs, and one more IPOPT header.
SourceInstalled ==
    UNION { { MarkerPath(CoinOr, k), <<"lib", LibFile[k]>> } :
            k \in { "metis", "mumps", "ipopt" } }
    \cup { PathJoin(CoinOr, "IpIpoptApplication.hpp") }

\* Files below the prefix that belong to none of the dependencies.
Unrelated ==
    { PathJoin(CoinOr, "other.h"), <<"lib", "libother.so">>, <<"share", "doc.txt">> }

UninstallLayouts ==
    { FsOf(ps) : ps \in SUBSET Artifacts }
    \cup { FsOf(SourceInstalled \cup CondaScripts \cup ps) : ps \in SUBSET Unrelated }
    \cup { FsOf(SourceInstalled \cup ps) : ps \in SUBSET Unrelated }

\* The command lines of an uninstall run.
ArgsUninstall ==
    { [ DefaultArgs EXCEPT !.uninstall = TRUE, !.ignore_conda = e ] : e \in BOOLEAN }

InitUninstall ==
    /\ env \in Environments
    /\ fs \in UninstallLayouts
    /\ fs0 = fs
    /\ args \in ArgsUninstall
    /\ opts = DefaultOpts
    /\ sys_info = SysInfo(8)
    /\ probe_out = <<"unset">>
    /\ cwd = <<"start">>
    /\ dir_stack = <<>>
    /\ stack = << Frame("perform_install", "") >>
    /\ status = "running"
    /\ trace = <<>>

\* The start of the second run.
SecondStart == Ev("start", "second run", TRUE)

\* The user runs the same command line again after the first run ended: a new
\* process, with the module-level state as at load time.
second_run ==
    /\ status # "running"
    /\ \A i \in 1..Len(trace) : trace[i] # SecondStart
    /\ trace' = Append(trace, SecondStart)
    /\ fs0' = fs
    /\ opts' = DefaultOpts
    /\ sys_info' = SysInfo(8)
    /\ cwd' = <<"start">>
    /\ dir_stack' = <<>>
    /\ stack' = << Frame("perform_install", "") >>
    /\ status' = "running"
    /\ UNCHANGED <<env, fs, args, probe_out>>

NextUninstall ==
    \/ perform_install_setup
    \/ process_command_line
    \/ perform_install_uninstall
    \/ uninstall_conda_pkgs
    \/ uninstall_built
    \/ uninstall_paropt_and_pyoptsparse
    \/ uninstall_built_item
    \/ remove_conda_scripts
    \/ second_run

SpecUninstall == InitUninstall /\ [][NextUninstall]_vars

-----------------------------------------------------------------------------
(* Runs in either mode: the command line may or may not carry --uninstall *)

\* The command lines of Args, each with and without --uninstall.
\* The values of --prefix: the default and a directory the user names.  An
\* install run is given the default.
Prefixes == { "home", "opt" }

ArgsModes ==
    { b \in { [ a EXCEPT !.uninstall = u, !.prefix = p ] :
                 a \in Args, u \in BOOLEAN, p \in Prefixes } :
        b.prefix # "home" => b.uninstall }

\* The environments of a run in either mode: with or without a conda
\* environment, with or without a virtualenv.
EnvironmentsModes ==
    Environments \cup
    { [ PATH |-> AllCommands, VIRTUAL_ENV |-> "venv" ],
      [ PATH |-> AllCommands, CONDA_PREFIX |-> "conda_env", VIRTUAL_ENV |-> "venv" ] }

\* The prefix is empty or holds a source install.
ModesLayouts == { [ dirs |-> {}, files |-> {} ], FsOf(SourceInstalled) }

InitModes ==
    /\ env \in EnvironmentsModes
    /\ fs \in ModesLayouts
    /\ fs0 = fs
    /\ args \in ArgsModes
    /\ opts = DefaultOpts
    /\ sys_info = SysInfo(8)
    /\ probe_out = <<"unset">>
    /\ cwd = <<"start">>
    /\ dir_stack = <<>>
    /\ stack = << Frame("perform_install", "") >>
    /\ status = "running"
    /\ trace = <<>>

NextModes ==
    \/ Next
    \/ perform_install_uninstall
    \/ uninstall_conda_pkgs
    \/ uninstall_built
    \/ uninstall_paropt_and_pyoptsparse
    \/ uninstall_built_item
    \/ remove_conda_scripts

SpecModes == InitModes /\ [][NextModes]_vars

-----------------------------------------------------------------------------
(* copy_snopt_files: the SNOPT sources copied into the pyOptSparse build *)

\* The characters of each name in the SNOPT folder, and of the folder names.
Spelling ==
    [ n \in { "snoptc.f", "snopth.f", "snopth.f90", "sn27lu.f", "sn27lu77.f",
              "sn27lu90.f", "f2py", "snopt_src", "src" } |->
      CASE n = "snoptc.f"   -> << "s", "n", "o", "p", "t", "c", ".", "f" >>
        [] n = "snopth.f"   -> << "s", "n", "o", "p", "t", "h", ".", "f" >>
        [] n = "snopth.f90" -> << "s", "n", "o", "p", "t", "h", ".", "f", "9", "0" >>
        [] n = "sn27lu.f"   -> << "s", "n", "2", "7", "l", "u", ".", "f" >>
        [] n = "sn27lu77.f" -> << "s", "n", "2", "7", "l", "u", "7", "7", ".", "f" >>
        [] n = "sn27lu90.f" -> << "s", "n", "2", "7", "l", "u", "9", "0", ".", "f" >>
        [] n = "f2py"       -> << "f", "2", "p", "y" >>
        [] n = "snopt_src"  -> << "s", "n", "o", "p", "t", "_", "s", "r", "c" >>
        [] n = "src"        -> << "s", "r", "c" >> ]

\* str(path): the components joined with "/".
RECURSIVE PathStr(_)
PathStr(p) ==
    IF Len(p) = 0 THEN <<>>
    ELSE IF Len(p) = 1 THEN Spelling[p[1]]
    ELSE PathStr(SubSeq(p, 1, Len(p) - 1)) \o <<"/">> \o Spelling[p[Len(p)]]

\* Variant: nothing is excluded.
exclude_snopth_f_nothing(str) == FALSE

\* re.compile('.*snopth.f').match(str): "snopth", any one character, "f",
\* somewhere in str.
exclude_snopth_f(str) ==
    \E i \in 1..Len(str) :
        /\ i + 7 <= Len(str)
        /\ SubSeq(str, i, i + 5) = << "s", "n", "o", "p", "t", "h" >>
        /\ str[i + 7] = "f"

\* Path(d).rglob(name): the files called name anywhere below d.
rglob(f, d, name) == { p \in f.files : Under(p, d) /\ p[Len(p)] = name }

\* Path(d).glob('*'): every entry directly in d, files and directories.
glob_all(f, d) == { p \in f.files \cup f.dirs : Len(p) = Len(d) + 1 /\ Under(p, d) }

\* dest_dir of copy_snopt_files, below the build directory.
SnoptDest == BuildDir("pyoptsparse") \o << "pyoptsparse", "pySNOPT", "source" >>

\* The entries of all_snopt_files that are copied.
snopt_files_copied(f, all_snopt_files) ==
    { sfile \in all_snopt_files :
        ~exclude_snopth_f(PathStr(sfile)) /\ sfile \notin f.dirs }

\* copy_snopt_files(build_dirname): snoptc_f_list[0] raises IndexError when
\* there is no snoptc.f below the SNOPT folder.
copy_snopt_files ==
    /\ Running("copy_snopt_files", 0)
    /\ LET snoptc_f_list == rglob(fs, << opts.snopt_dir >>, "snoptc.f")
       IN  IF snoptc_f_list = {}
           THEN /\ Raise(Append(trace, Ev("copy_snopt_files", "IndexError", FALSE)))
                /\ fs' = fs
           ELSE LET first == CHOOSE p \in snoptc_f_list : TRUE
                    parent == SubSeq(first, 1, Len(first) - 1)
                    copied == snopt_files_copied(fs, glob_all(fs, parent))
                IN  /\ fs' = [ fs EXCEPT !.files = @ \cup
                                  { Append(SnoptDest, p[Len(p)]) : p \in copied } ]
                    /\ trace' = Append(trace, Ev("copy_snopt_files", "", TRUE))
                    /\ stack' = Return
                    /\ status' = status
    /\ UNCHANGED <<env, conf, wd>>

\* The files the SNOPT folder may hold next to snoptc.f, and a directory.
SnoptNames ==
    { "snoptc.f", "snopth.f", "snopth.f90", "sn27lu.f", "sn27lu77.f", "sn27lu90.f" }

SnoptSrc == << "snopt_src", "src" >>

\* The SNOPT folder holding the files ns below src, with or without f2py/.
SnoptLayout(ns, with_dir) ==
    [ dirs |-> { <<"snopt_src">>, SnoptSrc, SnoptDest }
               \cup (IF with_dir THEN { Append(SnoptSrc, "f2py") } ELSE {}),
      files |-> { Append(SnoptSrc, n) : n \in ns } ]

InitSnopt ==
    /\ env \in Environments
    /\ \E ns \in SUBSET SnoptNames : \E with_dir \in BOOLEAN :
          fs = SnoptLayout(ns, with_dir)
    /\ fs0 = fs
    /\ args = [ DefaultArgs EXCEPT !.snopt_dir = "snopt_src" ]
    /\ opts = [ DefaultOpts EXCEPT !.snopt_dir = "snopt_src" ]
    /\ sys_info = SysInfo(8)
    /\ probe_out = <<"unset">>
    /\ cwd = BuildDir("pyoptsparse")
    /\ dir_stack = << <<"start">> >>
    /\ stack = << Frame("install_pyoptsparse_from_src", ""), Frame("copy_snopt_files", "") >>
    /\ status = "running"
    /\ trace = <<>>

NextSnopt == copy_snopt_files

SpecSnopt == InitSnopt /\ [][NextSnopt]_vars

-----------------------------------------------------------------------------
(* snopt_module.py: the SNOPT module builder *)

\* Where an installed pyoptsparse package is, and its pySNOPT directory.
PyoptsparseDir == << "site-packages", "pyoptsparse" >>
PySnoptDir == Append(PyoptsparseDir, "pySNOPT")

\* find_pyoptsparse(): `import pyoptsparse` raises when it is not installed.
pyoptsparse_importable == PyoptsparseDir \in fs.dirs

\* Variant: any directory is taken for a SNOPT source directory.
check_snopt_source_any_dir(source_dir) == source_dir \in fs.dirs

\* check_snopt_source(source_dir): the path exists, is a directory and holds
\* snoptc.f.
check_snopt_source(source_dir) ==
    /\ source_dir \in fs.dirs \cup fs.files
    /\ source_dir \in fs.dirs
    /\ Append(source_dir, "snoptc.f") \in fs.files

\* Variant: only snopth.f is left out.
EXCLUDE_FILES_snopth_only(f_file_names) == { "snopth.f" }

\* The names copy_snopt_source leaves out, given the *.f names in the folder.
EXCLUDE_FILES(f_file_names) ==
    { "snopth.f" }
    \cup (IF "sn27lu.f" \in f_file_names THEN { "sn27lu77.f", "sn27lu90.f" }
          ELSE IF "sn27lu90.f" \in f_file_names THEN { "sn27lu.f", "sn27lu77.f" }
          ELSE {})

\* The *.f names of the model.
FortranNames == SnoptNames \ { "snopth.f90" }

\* copy_snopt_source(source_dir, dest_dir): the names copied.
copy_snopt_source(source_dir) ==
    LET f_file_names == { p[Len(p)] : p \in { q \in fs.files :
                             /\ Len(q) = Len(source_dir) + 1
                             /\ Under(q, source_dir)
                             /\ q[Len(q)] \in FortranNames } }
    IN  f_file_names \ EXCLUDE_FILES(f_file_names)

\* One call copy_snopt_source(source_dir, dest_dir): the files are copied and
\* their names returned.
call_copy_snopt_source ==
    /\ Running("copy_snopt_source", 0)
    /\ LET copied_files == copy_snopt_source(opts.source_dir)
       IN  /\ fs' = [ dirs |-> fs.dirs \cup Ancestors(opts.dest_dir),
                      files |-> fs.files \cup { Append(opts.dest_dir, n) : n \in copied_files } ]
           /\ opts' = [ opts EXCEPT !.returned = copied_files ]
    /\ stack' = Return
    /\ UNCHANGED <<env, fs0, args, sys_info, probe_out, wd, status, trace>>

\* A source directory holding the files ns.
CopySourceLayout(ns) == FsOf({ << "snopt_src", n >> : n \in ns })

\* copy_snopt_source is called on a directory holding any of the names.
InitCopySource ==
    /\ env = [ PATH |-> {} ]
    /\ fs \in { CopySourceLayout(ns) : ns \in SUBSET SnoptNames }
    /\ fs0 = fs
    /\ args = [ snopt_source |-> <<"snopt_src">> ]
    /\ opts = [ source_dir |-> <<"snopt_src">>, dest_dir |-> << "build", "source" >>,
                returned |-> {} ]
    /\ sys_info = SysInfo(8)
    /\ probe_out = <<"unset">>
    /\ cwd = <<"start">>
    /\ dir_stack = <<>>
    /\ stack = << Frame("copy_snopt_source", "") >>
    /\ status = "running"
    /\ trace = <<>>

NextCopySource == call_copy_snopt_source

SpecCopySource == InitCopySource /\ [][NextCopySource]_vars

-----------------------------------------------------------------------------
(* grab-all-fortran-files.py *)

\* Python values of the script: a str and a pathlib.Path.  A Path never
\* compares equal to a str, whatever its text.
py_str(text) == [ class |-> "str", v |-> << text >> ]

py_path(parts) == [ class |-> "Path", v |-> parts ]

\* os.path.basename(path)
basename(path) == py_str(path.v[Len(path.v)])

\* TO_SKIP once the two membership tests on all_source_files have run.
TO_SKIP(all_source_files) ==
    { py_str("snopth.f") }
    \cup (IF py_str("sn27lu.f") \in all_source_files
          THEN { py_str("sn27lu77.f"), py_str("sn27lu90.f") }
          ELSE IF py_str("sn27lu90.f") \in all_source_files
          THEN { py_str("sn27lu77.f") }
          ELSE {})

\* The script, run in the directory CURDIR: the paths it prints.
grab_all_fortran_files ==
    /\ Running("grab_all_fortran_files", 0)
    /\ LET all_source_files ==
              { py_path(q) : q \in { r \in fs.files :
                                       /\ Len(r) = Len(opts.CURDIR) + 1
                                       /\ Under(r, opts.CURDIR)
                                       /\ r[Len(r)] \in FortranNames } }
       IN  opts' = [ opts EXCEPT !.printed =
                       { path.v : path \in { q \in all_source_files :
                                    basename(q) \notin TO_SKIP(all_source_files) } } ]
    /\ stack' = <<>>
    /\ status' = "exit0"
    /\ UNCHANGED <<env, fs, fs0, args, sys_info, probe_out, wd, trace>>

\* The script is run in a directory holding any of the names.
InitGrab ==
    /\ env = [ PATH |-> {} ]
    /\ fs \in { CopySourceLayout(ns) : ns \in SUBSET SnoptNames }
    /\ fs0 = fs
    /\ args = [ snopt_source |-> <<"snopt_src">> ]
    /\ opts = [ CURDIR |-> <<"snopt_src">>, printed |-> {} ]
    /\ sys_info = SysInfo(8)
    /\ probe_out = <<"unset">>
    /\ cwd = <<"start">>
    /\ dir_stack = <<>>
    /\ stack = << Frame("grab_all_fortran_files", "") >>
    /\ status = "running"
    /\ trace = <<>>

NextGrab == grab_all_fortran_files

SpecGrab == InitGrab /\ [][NextGrab]_vars

\* files_needed of copy_pyoptsparse_files, in its order.
files_needed == << << "f2py", "snopt.pyf" >>, << "openunit.f" >>, << "closeunit.f" >> >>

\* The module file meson leaves in builddir.
BuiltModule(build_dir) == build_dir \o << "builddir", "snopt.so" >>

\* find_built_module(build_dir): a file of builddir matching snopt*.so (the
\* other patterns match nothing in the model), or None.
find_built_module(build_dir) ==
    IF BuiltModule(build_dir) \in fs.files THEN BuiltModule(build_dir) ELSE <<"None">>

\* The finally block of main: the temporary directory is removed unless
\* --keep-build or --build-dir was given.
cleanup(f) ==
    IF opts.temp_dir /\ ~args.keep_build THEN rmtree(f, opts.build_dir) ELSE f

\* tempfile.TemporaryDirectory removes its directory when the object is
\* finalized: when main drops its last reference (`temp_dir = None`) or, at
\* the latest, when the interpreter exits.
implicit_cleanup(f) ==
    IF opts.temp_dir THEN rmtree(f, opts.build_dir) ELSE f

\* sys.exit(1) inside the try block of main, after the history became tr.
SysExit1(tr) ==
    /\ trace' = Append(tr, Ev("exit", "1", TRUE))
    /\ status' = "exit1"
    /\ stack' = <<>>
    /\ fs' = implicit_cleanup(cleanup(fs))
    /\ opts' = opts

main ==
    \/ /\ Running("main", 0)                       \* parse_args, default output
       /\ UNCHANGED <<env, fs0, args, sys_info, probe_out, wd>>
       /\ IF args.output = <<"None">>
          THEN IF pyoptsparse_importable
               THEN /\ opts' = [ opts EXCEPT !.output = PySnoptDir ]
                    /\ stack' = Goto(1)
                    /\ UNCHANGED <<status, trace>>
               ELSE /\ Raise(Append(trace, Ev("import_pyoptsparse", "", FALSE)))
                    /\ opts' = opts
          ELSE /\ opts' = [ opts EXCEPT !.output = args.output ]
               /\ stack' = Goto(1)
               /\ UNCHANGED <<status, trace>>
       /\ fs' = fs
    \/ /\ Running("main", 1)                       \* check_snopt_source, build dir
       /\ UNCHANGED <<env, fs0, args, sys_info, probe_out, wd>>
       /\ IF ~check_snopt_source(args.snopt_source)
          THEN /\ trace' = Append(trace, Ev("exit", "1", TRUE))
               /\ status' = "exit1"
               /\ stack' = <<>>
               /\ UNCHANGED <<fs, opts>>
          ELSE /\ opts' = [ opts EXCEPT
                              !.temp_dir = (args.build_dir = <<"None">>),
                              !.build_dir = IF args.build_dir = <<"None">>
                                            THEN << "tmp", "snopt-build" >>
                                            ELSE args.build_dir ]
               /\ fs' = [ fs EXCEPT !.dirs = @ \cup Ancestors(opts'.build_dir) ]
               /\ stack' = Goto(2)
               /\ UNCHANGED <<status, trace>>
    \/ /\ status = "running"                       \* copy_pyoptsparse_files
       /\ Len(stack) > 0
       /\ Cur.fn = "main"
       /\ Cur.at \in 2..4
       /\ UNCHANGED <<env, fs0, args, sys_info, probe_out, wd>>
       /\ LET file_path == files_needed[Cur.at - 1]
              dest == opts.build_dir \o <<"source">> \o file_path
          IN  IF dest \in fs.files
              THEN /\ stack' = Goto(Cur.at + 1)
                   /\ UNCHANGED <<fs, opts, status, trace>>
              ELSE \E downloaded \in BOOLEAN :
                     IF downloaded
                     THEN /\ fs' = WithFile(fs, dest)
                          /\ trace' = Append(trace, Ev("download", file_path[Len(file_path)], TRUE))
                          /\ stack' = Goto(Cur.at + 1)
                          /\ UNCHANGED <<opts, status>>
                     ELSE SysExit1(Append(trace, Ev("download", file_path[Len(file_path)], FALSE)))
    \/ /\ Running("main", 5)          \* copy_snopt_source, create_meson_build_file
       /\ UNCHANGED <<env, fs0, args, sys_info, probe_out, wd>>
       /\ fs' = [ dirs |-> fs.dirs,
                  files |-> fs.files
                            \cup { opts.build_dir \o << "source", n >> :
                                   n \in copy_snopt_source(args.snopt_source) }
                            \cup { Append(opts.build_dir, "meson.build") } ]
       /\ stack' = Goto(6)
       /\ UNCHANGED <<opts, status, trace>>
    \/ /\ Running("main", 6)                       \* build_with_meson: setup
       /\ UNCHANGED <<env, fs0, args, sys_info, probe_out, wd>>
       /\ IF ~which("meson")
          THEN SysExit1(Append(trace, Ev("which", "meson", FALSE)))
          ELSE \E exit_zero \in BOOLEAN :
                 IF exit_zero
                 THEN /\ trace' = Append(trace, Ev("meson_setup", "", TRUE))
                      /\ fs' = [ fs EXCEPT !.dirs = @ \cup { Append(opts.build_dir, "builddir") } ]
                      /\ stack' = Goto(7)
                      /\ UNCHANGED <<opts, status>>
                 ELSE SysExit1(Append(trace, Ev("meson_setup", "", FALSE)))
    \/ /\ Running("main", 7)                       \* build_with_meson: compile
       /\ UNCHANGED <<env, fs0, args, sys_info, probe_out, wd>>
       /\ \E exit_zero \in BOOLEAN : \E produced \in BOOLEAN :
            IF exit_zero
            THEN /\ trace' = Append(trace, Ev("meson_compile", "", TRUE))
                 /\ fs' = IF produced THEN WithFile(fs, BuiltModule(opts.build_dir)) ELSE fs
                 /\ stack' = Goto(8)
                 /\ UNCHANGED <<opts, status>>
            ELSE /\ ~produced
                 /\ SysExit1(Append(trace, Ev("meson_compile", "", FALSE)))
    \/ /\ Running("main", 8)          \* find_built_module, install_module, return
       /\ UNCHANGED <<env, fs0, args, sys_info, probe_out, wd>>
       /\ LET module_path == find_built_module(opts.build_dir)
          IN  IF module_path = <<"None">>
              THEN SysExit1(Append(trace, Ev("find_built_module", "", FALSE)))
              ELSE /\ fs' = implicit_cleanup(cleanup(
                              WithFile(fs, Append(opts.output, module_path[Len(module_path)]))))
                   /\ trace' = Append(trace, Ev("install_module", "", TRUE))
                   /\ status' = "exit0"
                   /\ stack' = <<>>
                   /\ opts' = opts

\* The SNOPT source arguments: a SNOPT folder, a folder without snoptc.f, a
\* path that is a file, a path that does not exist.
SnoptSources == { <<"snopt_src">>, <<"other_dir">>, <<"a_file">>, <<"no_such_dir">> }

\* What is on disk when the builder starts, with pyoptsparse installed or not.
ModuleLayouts ==
    LET base == [ dirs |-> { <<"snopt_src">>, <<"other_dir">> },
                  files |-> { << "snopt_src", n >> : n \in { "snoptc.f", "snopth.f", "sn27lu.f", "sn27lu90.f" } }
                            \cup { << "other_dir", "sn27lu.f" >>, << "a_file" >> } ]
        \* a build directory of an earlier run that holds one helper file
        kept == WithFile(base, << "my_build", "source", "openunit.f" >>)
    IN  { [ f EXCEPT !.dirs = @ \cup extra ] :
            f \in { base, kept }, extra \in { {}, Ancestors(PySnoptDir) } }

\* The command lines of the builder that name a SNOPT source.
ArgsModule ==
    [ snopt_source : SnoptSources, output : { <<"None">>, <<"my-snopt">> },
      keep_build : BOOLEAN, build_dir : { <<"None">>, <<"my_build">> } ]

InitModule ==
    /\ env \in { [ PATH |-> { "meson" } ], [ PATH |-> {} ] }
    /\ fs \in ModuleLayouts
    /\ fs0 = fs
    /\ args \in ArgsModule
    /\ opts = [ output |-> <<"None">>, temp_dir |-> FALSE, build_dir |-> <<"None">> ]
    /\ sys_info = SysInfo(8)
    /\ probe_out = <<"unset">>
    /\ cwd = <<"start">>
    /\ dir_stack = <<>>
    /\ stack = << Frame("main", "") >>
    /\ status = "running"
    /\ trace = <<>>

NextModule == main

SpecModule == InitModule /\ [][NextModule]_vars

-----------------------------------------------------------------------------
(* Reading the history *)

Idx == 1..Len(trace)

Happened(op, key, ok) == \E i \in Idx : trace[i] = Ev(op, key, ok)

\* The steps of a source build.
SourceStepOps ==
    { "git_clone", "git_config", "git_checkout", "pre_configure", "tarfile_open",
      "configure", "make", "make_install" }

\* The conda packages each dependency is installed as.
CondaPkgs ==
    [ metis |-> {"metis"},
      mumps |-> {"mumps-include", "mumps-seq", "mumps-mpi"},
      ipopt |-> {"ipopt", "cyipopt"} ]

\* The inputs under which conda may install: an active environment, no -e, and
\* a probe whose output matched.
CondaUsable ==
    /\ conda_is_active
    /\ args.ignore_conda = FALSE
    /\ re_search_conda_forge(probe_out)

AllCondaInstallsOk == \A i \in Idx : trace[i].op = "conda_install" => trace[i].ok

\* The source build function of dep was entered at history position i.
SrcEntered(i, dep) == trace[i].op = "allow_build" /\ trace[i].key = dep

\* ... right after a conda package of dep failed and try_fallback fell back.
FellBackBefore(i, dep) ==
    /\ i > 2
    /\ trace[i - 2].op = "conda_install"
    /\ trace[i - 2].key \in CondaPkgs[dep]
    /\ ~trace[i - 2].ok
    /\ trace[i - 1] = Ev("try_fallback", dep, TRUE)
    /\ args.fall_back

MarkerUnderPrefix(k) == \E d \in {CoinOr, Coin} : is_file(MarkerPath(d, k))

\* The marker of k in the include directory the resolver locates.
LocatedMarker(k) ==
    \/ is_dir(CoinOr) /\ is_file(MarkerPath(CoinOr, k))
    \/ ~is_dir(CoinOr) /\ is_dir(Coin) /\ is_file(MarkerPath(Coin, k))

EmptyPrefix == [ dirs |-> {}, files |-> {} ]

-----------------------------------------------------------------------------
(* C1 *)

\* C1: when the run has ended, normally or by an exception raised in a build
\* step, the working directory is the one the run started in and the
\* directory stack is back at its initial depth.
C1_DirectoryRestored ==
    status # "running" => cwd = <<"start">> /\ dir_stack = <<>>

(* C2 *)

\* C2: with force-rebuild unset, a dependency is not cloned while its marker
\* header exists under the prefix, be it below include/coin-or or include/coin.
C2_NoCloneOfInstalled ==
    \A k \in MarkerKeys :
        ( /\ status = "running"
          /\ Len(stack) > 0
          /\ Cur.fn = "git_clone"
          /\ Cur.key = k
          /\ opts.force_build = FALSE )
        => ~MarkerUnderPrefix(k)

(* C3 *)

C4_CondaAllowedIff ==
    allow_install_with_conda <=> CondaUsable

\* conda was allowed and an install with conda has been attempted.
C4_Witness ==
    /\ allow_install_with_conda
    /\ \E i \in Idx : trace[i].op = "conda_install"

(* C5 *)

C6_FallbackOnlyForIpopt ==
    \A i \in Idx :
        (trace[i] = Ev("conda_install", "ipopt", FALSE) /\ args.fall_back)
        => /\ Len(trace) > i
           /\ trace[i + 1] = Ev("try_fallback", "ipopt", TRUE)
           /\ Len(trace) = i + 1 => status = "running"
           /\ Len(trace) > i + 1 => SrcEntered(i + 2, "ipopt")
           /\ \A j \in (i + 1)..Len(trace) :
                  trace[j].key \notin
                      {"metis", "mumps", "hsl"} \cup CondaPkgs["mumps"]

\* METIS and MUMPS came from conda, IPOPT fell back and was built from source.
C6_Witness ==
    /\ Happened("conda_install", "metis", TRUE)
    /\ Happened("conda_install", "mumps-mpi", TRUE)
    /\ Happened("conda_install", "ipopt", FALSE)
    /\ Happened("make_install", "ipopt", TRUE)

(* C7 *)

\* C7: when a conda install fails and fallback is not enabled, nothing runs
\* after the failure: no source build, no later install, no success
\* announcement, and the process ends with status 1.
C7_FailureWithoutFallbackEndsRun ==
    \A i \in Idx :
        (trace[i].op = "conda_install" /\ ~trace[i].ok /\ ~args.fall_back)
        => /\ Len(trace) = i + 1
           /\ trace[i + 1].op = "try_fallback"
           /\ ~trace[i + 1].ok
           /\ status = "exit1"
           /\ stack = <<>>

\* The second MUMPS package failed without fallback, after the first succeeded.
C7_Witness ==
    /\ ~args.fall_back
    /\ Happened("conda_install", "mumps-include", TRUE)
    /\ Happened("conda_install", "mumps-seq", FALSE)
    /\ status = "exit1"

(* C8 *)

C9_CondaAndSourceExclusive ==
    \A dep \in DOMAIN CondaPkgs :
        ~( /\ \E p \in CondaPkgs[dep] : Happened("conda_install", p, TRUE)
           /\ Happened("make_install", dep, TRUE) )

(* C10 *)

FreshSourceRun ==
    /\ fs0 = EmptyPrefix
    /\ ~conda_is_active
    /\ args.linear_solver = "mumps"

\* Some step op of `later` happened, and each one only after the install
\* step of `earlier` succeeded.
BuiltAfter(earlier, later) ==
    \A i \in Idx :
        (trace[i].op = "git_clone" /\ trace[i].key = later)
        => \E j \in 1..(i - 1) : trace[j] = Ev("make_install", earlier, TRUE)

\* The resolver finds the marker of k in the include directory it locates.
ReportedInstalled(k) ==
    /\ k \in MarkerKeys
    /\ get_coin_inc_dir # <<"None">>
    /\ is_file(MarkerPath(get_coin_inc_dir, k))

\* C10 as stated: a successful run on a fresh prefix without conda, MUMPS
\* variant (IPOPT included, the target package installed), builds METIS,
\* MUMPS, IPOPT and the target package in that order and leaves all four
\* reported as installed by the resolver.
C10_FourMarkers ==
    (FreshSourceRun /\ status = "exit0" /\ ~args.no_ipopt /\ ~args.no_install)
    => /\ BuiltAfter("metis", "mumps")
       /\ BuiltAfter("mumps", "ipopt")
       /\ BuiltAfter("ipopt", "pyoptsparse")
       /\ \A k \in {"metis", "mumps", "ipopt", "pyoptsparse"} : ReportedInstalled(k)

\* C10 amended: on a fresh prefix without conda, MUMPS variant, each build
\* is cloned only after the previous one's install step succeeded; a run
\* that ends successfully with IPOPT included and the target package's
\* install requested has built METIS, MUMPS, IPOPT and the target package in
\* that order, and the resolver then finds the markers of METIS, MUMPS and
\* IPOPT (the target package has no marker header in the registry).
C10_ThreeMarkers ==
    FreshSourceRun
    => /\ BuiltAfter("metis", "mumps")
       /\ ~args.no_ipopt => BuiltAfter("mumps", "ipopt") /\ BuiltAfter("ipopt", "pyoptsparse")
       /\ args.no_ipopt => BuiltAfter("mumps", "pyoptsparse")
       /\ (status = "exit0" /\ ~args.no_ipopt /\ ~args.no_install)
          => /\ \A k \in {"metis", "mumps", "ipopt"} :
                    /\ Happened("make_install", k, TRUE)
                    /\ ReportedInstalled(k)
                    /\ ~opts.force_build => ~allow_build(k)
             /\ Happened("git_clone", "pyoptsparse", TRUE)
             /\ trace[Len(trace) - 1] = Ev("pip_install", "pyoptsparse", TRUE)
             /\ ~ReportedInstalled("pyoptsparse")

\* Such a run has ended successfully.
C10_Witness ==
    /\ FreshSourceRun /\ status = "exit0" /\ ~args.no_ipopt /\ ~args.no_install
    /\ Happened("make_install", "ipopt", TRUE)

-----------------------------------------------------------------------------
(* C11 *)

\* The dependencies built with configure and make.
SrcDeps == { "metis", "mumps", "hsl", "ipopt" }

\* The external steps of each of these builds, in the order of the code.
SrcSteps ==
    [ metis |-> << "git_clone", "git_config", "git_checkout", "pre_configure",
                   "configure", "make", "make_install" >>,
      mumps |-> << "git_clone", "git_config", "git_checkout", "pre_configure",
                   "configure", "make", "make_install" >>,
      hsl   |-> << "git_clone", "git_config", "git_checkout", "tarfile_open",
                   "pre_configure", "configure", "make", "make_install" >>,
      ipopt |-> << "git_clone", "git_config", "git_checkout",
                   "configure", "make", "make_install" >> ]

IsSrcStepOf(e, k) == e.key = k /\ e.op \in SourceStepOps

\* The source-build steps of dependency k that the run has executed so far.
SrcStepsDone(k) == SelectSeq(trace, LAMBDA e : IsSrcStepOf(e, k))

\* C11: the steps executed for each source build are an initial part of
\* clone, checkout, pre-configure, configure, make, make install, each one
\* run once and only after all the earlier ones exited zero; a step that
\* exits non-zero is the last thing the run does, and the run ends with
\* exit status 1.
C11_SourceStepsInOrder ==
    /\ \A k \in SrcDeps :
          LET done == SrcStepsDone(k)
          IN  /\ Len(done) <= Len(SrcSteps[k])
              /\ \A n \in 1..Len(done) :
                    /\ done[n].op = SrcSteps[k][n]
                    /\ (n < Len(done) => done[n].ok)
    /\ \A i \in Idx :
          (trace[i].op \in SourceStepOps /\ ~trace[i].ok)
              => (i = Len(trace) /\ status = "exit1" /\ stack = <<>>)

\* HSL was built and installed, then the configure step of IPOPT failed.
C11_Witness ==
    /\ Happened("make_install", "hsl", TRUE)
    /\ Happened("configure", "ipopt", FALSE)
    /\ status = "exit1"

-----------------------------------------------------------------------------
(* C12 *)

\* The last thing the run did was a `make` for build_key.
JustMade(build_key) ==
    /\ trace # <<>>
    /\ trace[Len(trace)].op = "make"
    /\ trace[Len(trace)].key = build_key

-----------------------------------------------------------------------------
(* C14 *)

\* The last thing the run did was the conda-forge probe.
JustProbed ==
    /\ trace # <<>>
    /\ trace[Len(trace)].op = "conda_info"

\* C14: whatever the probe command does, exit status zero with or without
\* the channel name in its output or a non-zero exit status, the run is not
\* ended by it and goes on to the set-up and install phases.
C14_ProbeNotFatal ==
    JustProbed => status = "running" /\ Len(stack) > 0

-----------------------------------------------------------------------------
(* C13 *)

\* The probe ran and did not find the channel: it exited zero with an output
\* that does not match, or it exited non-zero.
ProbeMissed ==
    \/ Happened("conda_info", "", TRUE) /\ ~re_search_conda_forge(probe_out)
    \/ Happened("conda_info", "", FALSE)

\* The set-up phase is over: the sanity checks or an install step is running.
PastSetup ==
    /\ Len(stack) > 0
    /\ \/ Cur.fn \notin { "perform_install", "process_command_line", "finish_setup" }
       \/ Cur.fn = "perform_install" /\ Cur.at >= 3

\* C13: once the probe has not found the channel, it is not run again, the
\* channel flag stays false, no conda install is attempted, and
\* compile_required is true while the sanity checks and the install steps run.
C13_ProbeMissIsPermanent ==
    ProbeMissed =>
        /\ Cardinality({ i \in Idx : trace[i].op = "conda_info" }) = 1
        /\ sys_info.conda_forge_available = FALSE
        /\ \A i \in Idx : trace[i].op # "conda_install"
        /\ PastSetup => opts.compile_required = TRUE

\* After a probe without the channel name, with conda active and the target
\* install not requested, the toolchain was tested and METIS made from source.
C13_Witness ==
    /\ probe_out = <<"defaults">>
    /\ args.no_install
    /\ Happened("check_library", "blas", TRUE)
    /\ Happened("make", "metis", TRUE)

-----------------------------------------------------------------------------
(* C15 *)

\* check_sanity called exit(1).
SanityExited == Happened("exit", "1", TRUE)

\* The error lines check_sanity printed.
ErrorIdx == { i \in Idx : trace[i].op = "error" }

\* check_sanity has taken its decision on the errors list.
SanityDecided ==
    \/ SanityExited
    \/ PastSetup /\ ~(Cur.fn = "check_sanity" /\ Cur.at = 0)

\* The commands the run requires, whatever the order they are looked up in.
RequiredCommands ==
    (IF (opts.compile_required = TRUE) \/ args.fall_back
     THEN { opts.make_name, "git", env["CC"], env["CXX"], env["FC"] }
          \cup (IF args.no_install THEN {} ELSE { "swig" })
     ELSE {})
    \cup (IF opts.compile_required = FALSE THEN { opts.conda_cmd } ELSE {})
    \cup (IF args.hsl_tar_file # "None" THEN { "tar" } ELSE {})
    \cup (IF args.paropt THEN { "mpicxx" } ELSE {})

\* The inputs the user supplied that are not usable.
UnusableInputs ==
    (IF args.hsl_tar_file \notin (UserFiles \cup {"None"}) THEN { "HSL tar file" } ELSE {})
    \cup (IF args.snopt_dir \notin (UserDirs \cup {"None"}) THEN { "SNOPT folder" } ELSE {})
    \cup (IF args.paropt /\ VerLT(args.branch, <<2, 1, 2>>)
          THEN { "PAROPT version" } ELSE {})

\* Everything check_sanity has to report.
Deficiencies == { c \in RequiredCommands : c \notin env["PATH"] } \cup UnusableInputs

\* C15: when check_sanity has decided, it has called exit(1), ending the run
\* with status 1, exactly if something required is missing; and then it has
\* printed one error line for each required command that is missing and
\* each unusable input, not only for the first of them.
C15_AllErrorsThenExit ==
    SanityDecided =>
        /\ SanityExited <=> (Deficiencies # {})
        /\ SanityExited <=> (ErrorIdx # {})
        /\ SanityExited =>
              /\ status = "exit1"
              /\ { trace[i].key : i \in ErrorIdx } = Deficiencies
              /\ Cardinality(ErrorIdx) = Cardinality(Deficiencies)

\* The HSL archive does not exist and two required commands are missing:
\* three error lines, then exit(1).
C15_Witness ==
    /\ SanityExited
    /\ Happened("error", "HSL tar file", FALSE)
    /\ Happened("error", "tar", FALSE)
    /\ Happened("error", "mpicxx", FALSE)
    /\ Cardinality(ErrorIdx) = 3

-----------------------------------------------------------------------------
(* C16 *)

\* The steps of the toolchain tests: compiling and running the trivial
\* programs, and the link tests.
ToolchainOps == { "compile", "run", "check_library" }

RequiredLibs == { "lapack", "blas" }

\* Step i of the history is a toolchain test that must not fail.
RequiredTestFailed(i) ==
    /\ ~trace[i].ok
    /\ \/ trace[i].op \in { "compile", "run" }
       \/ trace[i].op = "check_library" /\ trace[i].key \in RequiredLibs

\* C16: a toolchain test runs only when no required command or input was
\* found missing and compilation is required or fallback is enabled; a
\* failing compile or run of a trivial program, or a failing link test of
\* lapack or blas, is the last thing the run does and ends it with status 1;
\* a failing link test of openblas leaves the run going.
C16_ToolchainTests ==
    \A i \in Idx :
        /\ trace[i].op \in ToolchainOps =>
              /\ ErrorIdx = {}
              /\ Deficiencies = {}
              /\ (opts.compile_required = TRUE) \/ args.fall_back
        /\ RequiredTestFailed(i) =>
              (i = Len(trace) /\ status = "exit1" /\ stack = <<>>)
        /\ (trace[i] = Ev("check_library", "openblas", FALSE) /\ i = Len(trace)) =>
              (status = "running" /\ Len(stack) > 0)

\* The link test of openblas failed and the run went on to clone METIS.
C16_Witness ==
    /\ Happened("check_library", "lapack", TRUE)
    /\ Happened("check_library", "openblas", FALSE)
    /\ Happened("git_clone", "metis", TRUE)

-----------------------------------------------------------------------------
(* C17 *)

\* The toolchain tests were run and passed: the trivial programs were
\* compiled and run, lapack and blas were found.
ToolchainTested ==
    /\ Happened("run", "hello_c", TRUE)
    /\ Happened("run", "hello_cxx", TRUE)
    /\ Happened("run", "hello_f", TRUE)
    /\ Happened("check_library", "lapack", TRUE)
    /\ Happened("check_library", "blas", TRUE)

\* C17: in a run that does not skip the sanity checks, no dependency is
\* compiled from source (no make is run) before the toolchain tests passed.
C17_ToolchainTestedBeforeCompile ==
    (\E i \in Idx : trace[i].op = "make") => ToolchainTested

-----------------------------------------------------------------------------
(* C18 *)

\* The command line has a configuration error: the HSL variant without an
\* existing HSL archive, a SNOPT directory that does not exist, or ParOpt
\* with a release that is too old for it.
ConfigError ==
    \/ args.linear_solver = "hsl" /\ args.hsl_tar_file \notin UserFiles
    \/ UnusableInputs # {}

\* The steps that build or install something.
BuildOrInstallOps == SourceStepOps \cup { "conda_install", "pip_install" }

\* C18: a run whose command line has a configuration error ends before any
\* clone, configure, compile or install step.
C18_ConfigErrorsBeforeBuild ==
    ConfigError => \A i \in Idx : trace[i].op \notin BuildOrInstallOps

-----------------------------------------------------------------------------
(* C19 *)

\* The second uninstall run has started.
SecondRun == Happened("start", "second run", TRUE)

\* C19: an uninstall run never ends with a status other than 0, whatever is
\* below the prefix, and when the second of two uninstall runs has ended the
\* prefix is exactly as the first run left it.
C19_UninstallIdempotent ==
    /\ status \in { "running", "exit0" }
    /\ (SecondRun /\ status = "exit0") => fs = fs0

-----------------------------------------------------------------------------
(* C20 *)

\* The steps that remove a native dependency or the conda scripts.
NativeRemovalOps == { "conda_uninstall", "uninstall_built_item", "remove_conda_scripts" }

\* C20: in an uninstall run nothing of a native dependency, installed from
\* source or by conda, is removed before the pip uninstall of the top-level
\* package.
C20_TopLevelFirst ==
    ~SecondRun =>
        \A i \in Idx :
            trace[i].op \in NativeRemovalOps =>
                \E j \in 1..(i - 1) : trace[j].op = "pip_uninstall"
                                       /\ trace[j].key = "pyOptSparse"

\* Conda packages are removed in this run: an environment is active and -e
\* was not given.
CondaRemoval == conda_is_active /\ ~args.ignore_conda

\* The steps of a whole uninstall run.
UninstallSteps ==
    (IF CondaRemoval
     THEN << Ev("conda_uninstall", "ipopt", TRUE), Ev("conda_uninstall", "mumps", TRUE),
             Ev("conda_uninstall", "mumps-include", TRUE),
             Ev("conda_uninstall", "mumps-seq", TRUE),
             Ev("conda_uninstall", "mumps-mpi", TRUE),
             Ev("conda_uninstall", "metis", TRUE) >>
     ELSE << >>)
    \o << Ev("pip_uninstall", "pyOptSparse", TRUE), Ev("pip_uninstall", "paropt", TRUE),
          Ev("uninstall_built_item", "paropt", TRUE),
          Ev("uninstall_built_item", "ipopt", TRUE),
          Ev("uninstall_built_item", "hsl", TRUE),
          Ev("uninstall_built_item", "mumps", TRUE),
          Ev("uninstall_built_item", "metis", TRUE) >>
    \o (IF CondaRemoval THEN << Ev("remove_conda_scripts", "", TRUE) >> ELSE << >>)
    \o << Ev("exit", "0", TRUE) >>

\* C20 as the code has it: with an active conda environment and without -e
\* the conda packages ipopt, mumps, mumps-include, mumps-seq, mumps-mpi and
\* metis are uninstalled first; then pip uninstalls pyOptSparse and paropt,
\* the ParOpt library is removed, then the headers and libraries of IPOPT,
\* HSL, MUMPS and METIS in that order, then the conda scripts; the run ends
\* with exit(0) after all of them.
C20_UninstallOrder ==
    ~SecondRun =>
        /\ Len(trace) <= Len(UninstallSteps)
        /\ trace = SubSeq(UninstallSteps, 1, Len(trace))
        /\ (status = "exit0") => (trace = UninstallSteps)

\* A whole uninstall run in an active conda environment.
C20_Witness ==
    /\ ~SecondRun
    /\ status = "exit0"
    /\ CondaRemoval
    /\ Happened("conda_uninstall", "metis", TRUE)
    /\ Happened("remove_conda_scripts", "", TRUE)


-----------------------------------------------------------------------------
(* C21 *)

\* The dependencies whose artifacts the claim is about.
BuiltDeps == { "metis", "mumps", "ipopt" }

\* The files of f that the registry's patterns describe for build_key: what is
\* below its include sub-directory (or, with a glob list, what the header
\* globs match in it) and what its library glob matches in lib.
PatternFiles(f, build_key) ==
    LET d == build_info[build_key]
        inc_dir == PathJoin(CoinOr, d.include_subdir)
    IN  (IF "include_subdir" \notin DOMAIN d THEN {}
         ELSE IF "include_glob_list" \in DOMAIN d
              THEN UNION { glob(f, inc_dir, d.include_glob_list[i]) :
                           i \in 1..Len(d.include_glob_list) }
              ELSE { p \in f.files : Under(p, inc_dir) })
        \cup (IF "src_lib_glob" \in DOMAIN d THEN glob(f, <<"lib">>, d.src_lib_glob) ELSE {})

\* Everything uninstall may delete from f.
Removable(f) == UNION { PatternFiles(f, k) : k \in BuildKeys \ {"pyoptsparse"} } \cup CondaScripts

\* The first uninstall run has ended and started from a source-built prefix.
UninstalledSourceBuilt ==
    /\ status = "exit0"
    /\ ~SecondRun
    /\ SourceInstalled \subseteq fs0.files

-----------------------------------------------------------------------------
(* C22 *)

\* The functions an uninstall run is in.
UninstallModeFns ==
    { "perform_install", "process_command_line", "uninstall_conda_pkgs",
      "uninstall_built", "uninstall_paropt_and_pyoptsparse",
      "uninstall_built_item", "remove_conda_scripts" }

\* The steps of an uninstall run.
UninstallOps ==
    { "conda_uninstall", "pip_uninstall", "uninstall_built_item", "remove_conda_scripts" }

\* The steps of an install run: the probe, the sanity checks, the installs
\* with conda and pip, the steps of a source build, the success announcement.
InstallModeOps ==
    { "conda_info", "gcc_dumpversion", "error", "allow_build", "announce" }
    \cup ToolchainOps \cup BuildOrInstallOps

\* C22: in a run with the uninstall option no probe, no sanity check, no
\* install with conda or pip and no step of a source build is executed, the
\* run is only ever inside the uninstall functions, and it ends with exit(0)
\* right after an uninstall step.
C22_UninstallTerminal ==
    args.uninstall =>
        /\ \A i \in Idx : trace[i].op \notin InstallModeOps
        /\ \A j \in 1..Len(stack) : stack[j].fn \in UninstallModeFns
        /\ status # "running" =>
              /\ status = "exit0"
              /\ Len(trace) >= 2
              /\ trace[Len(trace)] = Ev("exit", "0", TRUE)
              /\ trace[Len(trace) - 1].op \in UninstallOps

\* An uninstall run in an active conda environment, on a command line that
\* also names a solver to build, has ended.
C22_Witness ==
    /\ args.uninstall
    /\ conda_is_active /\ ~args.ignore_conda
    /\ args.force_build /\ args.linear_solver = "hsl"
    /\ status = "exit0"
    /\ Happened("uninstall_built_item", "metis", TRUE)


-----------------------------------------------------------------------------
(* C23 *)

\* Everything the run may build from source.
AllSrcBuilds == SrcDeps \cup { "paropt", "pyoptsparse" }

\* Step i is a step of the source build of k, and allow_build(k) returned
\* true before it.
GatedStep(i, k) ==
    IsSrcStepOf(trace[i], k) =>
        \E j \in 1..(i - 1) : trace[j] = Ev("allow_build", k, TRUE)

\* C23: every step of a source build of METIS, MUMPS, HSL, IPOPT, ParOpt or
\* the target package comes after allow_build returned true for it.
C23_EveryBuildGated ==
    \A i \in Idx : \A k \in AllSrcBuilds : GatedStep(i, k)

\* C23 as the code has it: the source builds of METIS, MUMPS, HSL and IPOPT
\* come after allow_build returned true for them; ParOpt and the target
\* package are cloned without asking allow_build.
C23_NativeBuildsGated ==
    /\ \A i \in Idx : \A k \in SrcDeps : GatedStep(i, k)
    /\ \A i \in Idx : trace[i].op = "allow_build" => trace[i].key \in SrcDeps

\* A run against a prefix that holds the METIS header: with -f METIS was built
\* again after allow_build said yes, and the target package was cloned.
C23_Witness ==
    /\ MarkerPath(CoinOr, "metis") \in fs0.files
    /\ Happened("allow_build", "metis", TRUE)
    /\ Happened("make_install", "metis", TRUE)
    /\ Happened("git_clone", "pyoptsparse", TRUE)
    /\ Happened("git_clone", "paropt", TRUE)


-----------------------------------------------------------------------------
(* C24 *)

\* The functions that read opts['pyoptsparse_version'].
VersionReaders == { "check_sanity", "install_ipopt", "patch_pyoptsparse_src" }

\* The field still holds its initial value, None.
VersionUnset == opts.pyoptsparse_version = <<"None">>

\* C24: while the run is inside check_sanity, install_ipopt or
\* patch_pyoptsparse_src, the parsed target-package version has been derived
\* by finish_setup, and it is the release the branch option names.
C24_VersionDerivedBeforeRead ==
    \A j \in 1..Len(stack) :
        stack[j].fn \in VersionReaders =>
            ~VersionUnset /\ opts.pyoptsparse_version = args.branch

\* The run passed the sanity checks and is now inside install_ipopt.
C24_Witness ==
    /\ Len(stack) > 0
    /\ Cur.fn = "install_ipopt"
    /\ opts.check_sanity = TRUE
    /\ opts.pyoptsparse_version = <<2, 14, 0>>


-----------------------------------------------------------------------------
(* C25 *)

\* The names of the files in the pySNOPT source directory.
SnoptCopied == { p[Len(p)] : p \in { q \in fs.files : Under(q, SnoptDest) } }

\* The linkage-table variants.
LinkageVariants == { "sn27lu.f", "sn27lu77.f", "sn27lu90.f" }

-----------------------------------------------------------------------------
(* C26 *)

\* get_common_solver_config_cmd() is about to assemble the configure command
\* of MUMPS or of HSL.
AssemblingSolverConfig ==
    Running("install_mumps_from_src", 2) \/ Running("install_hsl_from_src", 3)

\* IPOPT is about to be configured from source in the MUMPS variant.
ConfiguringIpoptWithMumps ==
    /\ Running("install_ipopt_from_src", 1)
    /\ Cur.config_opts.solver = "mumps"

\* The include directory coin_dir and the library name lib are not None, and
\* the include sub-directory of dep is there below coin_dir.
Resolved(coin_dir, lib, dep) ==
    /\ coin_dir # <<"None">>
    /\ lib # "None"
    /\ is_dir(PathJoin(coin_dir, build_info[dep].include_subdir))

\* C26: when the configure command of MUMPS or HSL is assembled, the METIS
\* include directory and library name it names are resolved to what is under
\* the prefix, and when IPOPT is configured from source in the MUMPS variant,
\* so are the MUMPS include directory and library name of its options; no
\* configure command is built from a missing directory or library name.
C26_ConfigureFlagsResolved ==
    /\ AssemblingSolverConfig =>
          Resolved(get_coin_inc_dir, get_coin_lib_name("metis"), "metis")
    /\ ConfiguringIpoptWithMumps =>
          Resolved(Cur.config_opts.coin_dir, Cur.config_opts.lib, "mumps")


-----------------------------------------------------------------------------
(* C27 *)

\* The dependencies the chosen variant installs.
VariantDeps ==
    (CASE args.linear_solver = "mumps" -> { "metis", "mumps" }
       [] args.linear_solver = "hsl" -> { "metis", "hsl" }
       [] args.linear_solver = "pardiso" -> {})
    \cup (IF args.no_ipopt THEN {} ELSE { "ipopt" })

\* The conda packages whose install makes up the conda install of dep.
CondaPkgsNeeded(dep) ==
    CASE dep = "ipopt" -> IF NeedsCyipopt THEN { "ipopt", "cyipopt" } ELSE { "ipopt" }
      [] dep = "hsl" -> {}
      [] OTHER -> CondaPkgs[dep]

\* The step of dep ended in a successful conda install, a successful source
\* build, or a skip by allow_build.
StepEndedWell(dep) ==
    \/ /\ CondaPkgsNeeded(dep) # {}
       /\ \A pkg \in CondaPkgsNeeded(dep) : Happened("conda_install", pkg, TRUE)
    \/ Happened("make_install", dep, TRUE)
    \/ Happened("allow_build", dep, FALSE)

\* The sanity check printed an error, or a step of a source build or a pip
\* install failed.
SanityOrBuildFailed ==
    \E i \in Idx :
        \/ trace[i].op = "error"
        \/ trace[i].op \in SourceStepOps \cup { "pip_install" } /\ ~trace[i].ok

Announced == Happened("announce", "SUCCESS!", TRUE)

\* C27: a run that ends with exit status 0 has, for every dependency of its
\* variant, a successful conda install, a successful source build or a skip
\* by allow_build; a run with a sanity error or a failed build step never
\* announces success and ends with status 1.
C27_ExitZeroOnlyAfterSuccess ==
    /\ (status = "exit0" \/ Announced) =>
          /\ \A dep \in VariantDeps : StepEndedWell(dep)
          /\ ~SanityOrBuildFailed
    /\ SanityOrBuildFailed => status = "exit1"

\* A run that fell back to a source build of IPOPT and ended with status 0,
\* after METIS was skipped by allow_build.
C27_Witness ==
    /\ status = "exit0"
    /\ Announced
    /\ args.linear_solver = "mumps"
    /\ Happened("conda_install", "metis", TRUE)
    /\ Happened("conda_install", "ipopt", FALSE)
    /\ Happened("make_install", "ipopt", TRUE)


-----------------------------------------------------------------------------
(* C28 *)

\* C28: when an install run inside an active conda environment that is not
\* ignored has ended with status 0, the activation and the deactivation
\* script are under etc/conda of the prefix, however the dependencies were
\* installed.
C28_ScriptsAfterSuccess ==
    (status = "exit0" /\ conda_is_active /\ ~args.ignore_conda)
        => CondaScripts \subseteq fs.files


-----------------------------------------------------------------------------
(* C29 *)

\* The module files in the output directories.
InstalledModules ==
    { p \in fs.files : \E d \in { PySnoptDir, <<"my-snopt">> } : Under(p, d) }

\* The builder was given a valid source and no output option, pyoptsparse is
\* installed, the downloads, meson setup and compile succeeded and the built
\* module was found.
AllStagesSucceeded ==
    /\ args.snopt_source = <<"snopt_src">>
    /\ args.output = <<"None">>
    /\ PyoptsparseDir \in fs0.dirs
    /\ \A i \in 1..Len(files_needed) :
          Happened("download", files_needed[i][Len(files_needed[i])], TRUE)
    /\ Happened("meson_setup", "", TRUE)
    /\ Happened("meson_compile", "", TRUE)
    /\ ~Happened("find_built_module", "", FALSE)

\* A stage failed: the source is not valid, a download, the setup or the
\* compile failed, meson is missing, or no built module was found.
StageFailed ==
    \/ status # "running" /\ args.snopt_source # <<"snopt_src">>
                          /\ ~Happened("import_pyoptsparse", "", FALSE)
    \/ \E i \in Idx : trace[i].op \in { "download", "which", "meson_setup",
                                         "meson_compile", "find_built_module" }
                        /\ ~trace[i].ok

\* C29: with a valid source, no output option and every stage succeeding the
\* run ends with status 0 and the module in the pySNOPT directory of
\* pyoptsparse; a module is only ever installed after a successful compile
\* with the built module found; every failing stage ends the run with
\* status 1 and nothing installed.
C29_ModuleBuilder ==
    /\ (AllStagesSucceeded /\ status # "running") =>
          /\ status = "exit0"
          /\ Append(PySnoptDir, "snopt.so") \in fs.files
    /\ InstalledModules # {} =>
          /\ Happened("meson_compile", "", TRUE)
          /\ Happened("install_module", "", TRUE)
          /\ ~StageFailed
    /\ StageFailed => status = "exit1" /\ InstalledModules = {}

\* The default run succeeded and removed its temporary build directory.
C29_Witness ==
    /\ AllStagesSucceeded
    /\ status = "exit0"
    /\ ~args.keep_build /\ args.build_dir = <<"None">>
    /\ Append(PySnoptDir, "snopt.so") \in fs.files
    /\ << "tmp", "snopt-build" >> \notin fs.dirs


-----------------------------------------------------------------------------
(* C30 *)

\* Step e installs IPOPT or cyipopt in some way: with conda, as a step of a
\* source build, or with pip.
InstallsIpopt(e) ==
    \/ e.op = "conda_install" /\ e.key \in { "ipopt", "cyipopt" }
    \/ e.op \in SourceStepOps /\ e.key = "ipopt"
    \/ e.op = "pip_install" /\ e.key = "cyipopt"

\* C30: with the no-ipopt option, in every solver variant, IPOPT is neither
\* installed with conda nor cloned, configured or built from source, and
\* cyipopt is not installed.
C30_NoIpopt ==
    args.no_ipopt => \A i \in Idx : ~InstallsIpopt(trace[i])

\* A run of the HSL variant with --no-ipopt and a release that would need
\* cyipopt has built HSL, reached install_ipopt_from_src and ended well.
C30_Witness ==
    /\ args.no_ipopt
    /\ args.linear_solver = "hsl"
    /\ args.branch = <<2, 14, 0>>
    /\ Happened("make_install", "hsl", TRUE)
    /\ Happened("allow_build", "ipopt", TRUE)
    /\ status = "exit0"


-----------------------------------------------------------------------------
(* C31 *)

\* initialize() has run.
Initialized ==
    \/ status = "exit0"
    \/ /\ Len(stack) > 0
       /\ stack[1].fn = "perform_install" => stack[1].at >= 2

\* C31 as stated: once initialize() has run, the prefix is the conda
\* environment's whenever a conda environment is active, otherwise the
\* virtualenv's whenever a virtualenv is active, and the --prefix value only
\* when neither is active.
C31_PrefixByEnvironment ==
    Initialized =>
        opts.prefix = IF conda_is_active THEN env["CONDA_PREFIX"]
                      ELSE IF venv_is_active THEN env["VIRTUAL_ENV"]
                      ELSE args.prefix

\* C31 amended: the prefix is the conda environment's when a conda environment
\* is active and --ignore-conda was not given, otherwise the virtualenv's when
\* a virtualenv is active, otherwise the --prefix value.
C31_PrefixUnlessIgnored ==
    Initialized =>
        opts.prefix = IF conda_is_active /\ ~args.ignore_conda
                      THEN env["CONDA_PREFIX"]
                      ELSE IF venv_is_active THEN env["VIRTUAL_ENV"]
                      ELSE args.prefix

\* An uninstall run with -e and --prefix in a conda environment without a
\* virtualenv has ended with the --prefix value as its prefix.
C31_Witness ==
    /\ status = "exit0"
    /\ conda_is_active
    /\ ~venv_is_active
    /\ args.ignore_conda
    /\ args.prefix = "opt"
    /\ opts.prefix = "opt"


-----------------------------------------------------------------------------
(* C32 *)

\* The positions of each function that lie between a pushd and its popd.
BetweenPushdAndPopd ==
    [ git_clone |-> { 2 },
      install_metis_from_src |-> { 1, 2, 3 },
      install_mumps_from_src |-> { 1, 2, 3 },
      install_ipopt_from_src |-> { 1, 2 },
      install_hsl_from_src |-> { 1, 2, 3, 4 },
      install_paropt_from_src |-> { 1, 2, 3 },
      install_pyoptsparse_from_src |-> { 3, 4, 5 },
      patch_pyoptsparse_src |-> { 1 },
      check_library |-> { 1 },
      check_compiler_sanity |-> { 1, 2, 3, 4, 5, 6, 7 } ]

\* The positions at which popd is the next statement.
PopdSites ==
    [ install_metis_from_src |-> 3, install_mumps_from_src |-> 3,
      install_ipopt_from_src |-> 2, install_hsl_from_src |-> 4,
      install_paropt_from_src |-> 3, install_pyoptsparse_from_src |-> 5,
      patch_pyoptsparse_src |-> 1, check_library |-> 1,
      check_compiler_sanity |-> 7 ]

\* Frame i has pushed a directory that it has not popped yet.  The caller of
\* git_clone owns the directory git_clone pushed once git_clone has returned.
HoldsDirectory(i) ==
    /\ stack[i].fn \in DOMAIN BetweenPushdAndPopd
    /\ stack[i].at \in BetweenPushdAndPopd[stack[i].fn]
    /\ ~(i < Len(stack) /\ stack[i + 1].fn = "git_clone")

AtPopd ==
    /\ status = "running"
    /\ Len(stack) > 0
    /\ Cur.fn \in DOMAIN PopdSites
    /\ Cur.at = PopdSites[Cur.fn]

\* C32: while the run goes on, the directory stack holds one entry for each
\* function that is between its pushd and its popd, so pushd and popd pair up
\* last-in-first-out and the directory is the starting one outside every such
\* function; a run that ends normally ends with an empty stack in the
\* starting directory; and popd never runs on an empty stack.
C32_PushdPopdBalanced ==
    /\ status = "running" =>
          /\ Len(dir_stack) =
                Cardinality({ i \in 1..Len(stack) : HoldsDirectory(i) })
          /\ dir_stack = <<>> => cwd = <<"start">>
    /\ status = "exit0" => dir_stack = <<>> /\ cwd = <<"start">>
    /\ AtPopd => dir_stack # <<>>

\* A run in which every command succeeded is about to leave the patched
\* pyIPOPT directory, two directories deep, after METIS was built from source
\* and the compilers were tested.
C32_Witness ==
    /\ Running("patch_pyoptsparse_src", 1)
    /\ Len(dir_stack) = 2
    /\ Happened("make_install", "metis", TRUE)
    /\ Happened("run", "hello_f", TRUE)
    /\ \A i \in Idx : trace[i].ok


-----------------------------------------------------------------------------
(* C33 *)

\* The names of the files directly in directory d of file system f.
NamesIn(f, d) ==
    { p[Len(p)] : p \in { q \in f.files : Len(q) = Len(d) + 1 /\ Under(q, d) } }

\* C33: when copy_snopt_source has returned, snopth.f is not among the files
\* copied, at most one linkage variant is (sn27lu.f if present, else
\* sn27lu90.f if present, else sn27lu77.f if present), every other *.f file
\* of the source directory is, nothing else is, and the names returned are
\* the names copied.
C33_CopySnoptSource ==
    stack = <<>> =>
        LET present == NamesIn(fs0, opts.source_dir)
            copied == NamesIn(fs, opts.dest_dir)
        IN  /\ "snopth.f" \notin copied
            /\ Cardinality(copied \cap LinkageVariants) <= 1
            /\ copied \cap LinkageVariants =
                  IF "sn27lu.f" \in present THEN { "sn27lu.f" }
                  ELSE IF "sn27lu90.f" \in present THEN { "sn27lu90.f" }
                  ELSE present \cap { "sn27lu77.f" }
            /\ copied \ LinkageVariants =
                  (present \cap FortranNames) \ (LinkageVariants \cup { "snopth.f" })
            /\ opts.returned = copied

\* The call has returned from a directory holding all three linkage variants,
\* snopth.f and another Fortran file.
C33_Witness ==
    /\ stack = <<>>
    /\ LinkageVariants \cup { "snopth.f", "snoptc.f" }
          \subseteq NamesIn(fs0, opts.source_dir)
    /\ opts.returned = { "snoptc.f", "sn27lu.f" }


-----------------------------------------------------------------------------
(* C34 *)

\* The run was started without --build-dir, created its temporary build
\* directory and has ended.
EndedWithTempDir ==
    /\ status # "running"
    /\ args.build_dir = <<"None">>
    /\ opts.temp_dir

\* C34: when a run without --build-dir has ended, its temporary build
\* directory exists if and only if --keep-build was given.
C34_TempDirKeptIffKeepBuild ==
    EndedWithTempDir => (is_dir(opts.build_dir) <=> args.keep_build)


-----------------------------------------------------------------------------
(* C35 *)

\* C35: run_cmd does what its documentation says.  Where check_library calls
\* it with raise_error false, a non-zero status makes it raise; where
\* check_compiler_sanity calls it with raise_error left true, a non-zero
\* status makes it return False without raising; with do_check false it
\* never raises.
C35_RunCmdAsDocumented ==
    /\ Running("check_library", 1) =>
          run_cmd_outcome(FALSE, TRUE, FALSE) = "raises"
    /\ Running("check_compiler_sanity", 1) =>
          run_cmd_outcome(FALSE, TRUE, TRUE) = "False"
    /\ \A exit_zero \in BOOLEAN, raise_error \in BOOLEAN :
          run_cmd_outcome(exit_zero, FALSE, raise_error) # "raises"

-----------------------------------------------------------------------------
(* C36 *)

\* The directory METIS_DIR names exists: it is the conda prefix, or the METIS
\* clone made with keep_build_dir set.  A clone made without it is a
\* tempfile.TemporaryDirectory, removed when install_metis_from_src returned.
MetisDirExists ==
    \/ conda_is_active /\ env["METIS_DIR"] = env["CONDA_PREFIX"]
    \/ env["METIS_DIR"] = "tmp_metis" /\ opts.keep_build_dir = TRUE

\* C36: when the ParOpt build reads METIS_DIR, the variable is set and names
\* a directory that exists.
C36_MetisDirAvailable ==
    Running("install_paropt_from_src", 1) =>
        /\ "METIS_DIR" \in DOMAIN env
        /\ MetisDirExists


-----------------------------------------------------------------------------
(* C38 *)

\* C38: on a host with at least one core, the number of make processes put in
\* MAKEFLAGS for a compilation is a positive integer: 1 for MUMPS, half the
\* core count rounded down for every other build.
C38_MakeJobsPositive ==
    \A k \in DOMAIN build_info :
        JustMade(k) =>
            /\ env["MAKEFLAGS"][1] = "-j"
            /\ env["MAKEFLAGS"][2] \in Nat \ { 0 }
            /\ \E cpu_count \in CpuCounts :
                  env["MAKEFLAGS"][2] = IF k = "mumps" THEN 1 ELSE cpu_count \div 2


-----------------------------------------------------------------------------
(* C37 *)

\* C37: when an uninstall run has ended, allow_build with force_build unset
\* is true for every dependency that has a marker header, whether its headers
\* were below include/coin-or or below include/coin.
C37_BuildAllowedAfterUninstall ==
    (status = "exit0" /\ opts.force_build = FALSE) =>
        \A k \in MarkerKeys : allow_build(k)


-----------------------------------------------------------------------------
(* C39 *)

\* The successful installs of cyipopt among the first n steps of the run.
CyipoptInstalls(n) ==
    { i \in 1..n : /\ trace[i].key = "cyipopt"
                   /\ trace[i].op \in { "conda_install", "pip_install" }
                   /\ trace[i].ok }

\* C39: for a release of 2.14 or newer with IPOPT included, in every solver
\* variant, when the build of the target package starts cyipopt has been
\* installed exactly once: with conda when IPOPT was installed with conda,
\* with pip otherwise.
C39_CyipoptOnceBeforeTarget ==
    (VerGE(args.branch, <<2, 14, 0>>) /\ ~args.no_ipopt) =>
        \A j \in Idx :
            (trace[j].op = "pip_install" /\ trace[j].key = "pyoptsparse") =>
                /\ Cardinality(CyipoptInstalls(j)) = 1
                /\ \A i \in CyipoptInstalls(j) :
                      (trace[i].op = "conda_install")
                          <=> Happened("conda_install", "ipopt", TRUE)


-----------------------------------------------------------------------------
(* C40 *)

\* C40: the script lists every *.f file of its directory except snopth.f,
\* never two linkage variants together (with sn27lu.f present it omits
\* sn27lu77.f and sn27lu90.f, with only sn27lu90.f of the two present it
\* omits sn27lu77.f), and the names it lists are those copy_snopt_source
\* would copy from the directory.
C40_GrabListsWhatIsCopied ==
    status = "exit0" =>
        LET present == NamesIn(fs, opts.CURDIR) \cap FortranNames
            listed == { q[Len(q)] : q \in opts.printed }
        IN  /\ listed \ LinkageVariants =
                  present \ (LinkageVariants \cup { "snopth.f" })
            /\ "sn27lu.f" \in present =>
                  listed \cap LinkageVariants = { "sn27lu.f" }
            /\ ("sn27lu.f" \notin present /\ "sn27lu90.f" \in present) =>
                  listed \cap LinkageVariants = { "sn27lu90.f" }
            /\ listed = copy_snopt_source(opts.CURDIR)


====
